---- MODULE Spec2Model ----
(***************************************************************************)
(* Model of epkgs/query: the clause expression tree (Eq, Neq, Gt, Gte, Lt, *)
(* Lte, Like, IN, AndExpr, OrExpr, NotExpr), its rendering into a Builder  *)
(* sink, the Where / OrderBys / Pagination clauses and the fluent query    *)
(* builder (Where / OrWhere / Not / Limit / Offset / Select().Build).      *)
(*                                                                         *)
(* Two specifications:                                                     *)
(*   SpecRender  an expression tree is drawn in Init and rendered by       *)
(*               Build, NegationBuild or (as a Where list) Where.Build;    *)
(*   Spec        a Query is built by fluent calls and rendered by          *)
(*               Select().Build.                                           *)
(***************************************************************************)
EXTENDS Integers, Sequences, FiniteSets, TLC

VARIABLES
    pc,          \* position of the driver: "ready" | "built"
    op,          \* the operation that acted last
    expr,        \* SpecRender: the expression tree under render
    where,       \* where[P].Value.Exprs of the query (clause.Where.Exprs)
    origin,      \* history: for each entry of where, the call that added it
    orderbys,    \* orderbys[P].Value of the query (clause.OrderBys)
    pagination,  \* pagination[P].Value of the query (clause.Pagination)
    Error,       \* errorRecord.Error of the query
    builder,     \* the sink handed to Build (mockBuilder)
    mem          \* SpecOwn: the arrays behind the Exprs slices of a Query and of
                 \* the SelectQuery made from it

vars == <<pc, op, expr, where, origin, orderbys, pagination, Error, builder, mem>>

(***************************************************************************)
(* Bounds of the model.                                                    *)
(***************************************************************************)
MaxExprs == 2     \* children of a group, entries of a drawn list
MaxValues == 2    \* elements of a list value
MaxWhere == 2     \* entries of the query's Where list

(***************************************************************************)
(* Small helpers on sequences.                                             *)
(***************************************************************************)
SeqsUpTo(S, n) == UNION {[1..k -> S] : k \in 0..n}

NonEmptySeqsUpTo(S, n) == UNION {[1..k -> S] : k \in 1..n}

RECURSIVE Flatten(_)
Flatten(ss) == IF ss = <<>> THEN <<>> ELSE Head(ss) \o Flatten(Tail(ss))

RECURSIVE Concat(_)
Concat(chunks) == IF chunks = <<>> THEN "" ELSE Head(chunks) \o Concat(Tail(chunks))

RECURSIVE SelectChunks(_, _)
SelectChunks(chunks, S) ==
    IF chunks = <<>> THEN <<>>
    ELSE (IF Head(chunks) \in S THEN <<Head(chunks)>> ELSE <<>>)
         \o SelectChunks(Tail(chunks), S)

Count(chunks, s) == Len(SelectChunks(chunks, {s}))

(***************************************************************************)
(* Go values held in Value / Values (interface{}), by dynamic type.        *)
(***************************************************************************)
Nil == [t |-> "nil", v |-> 0]

\* a pointer holds an address; address 0 is the nil pointer
NilPtr == [t |-> "*int", v |-> 0]

Ptr(x) == [t |-> "*int", v |-> x]

\* x is the integer itself
GoInt(x) == [t |-> "int", v |-> x]

GoString(x) == [t |-> "string", v |-> x]

Anys(l) == [t |-> "[]interface{}", v |-> l]

Ints(l) == [t |-> "[]int", v |-> l]

Strings(l) == [t |-> "[]string", v |-> l]

\* a Valuer whose Value() returns x
Valuer(x) == [t |-> "Valuer", v |-> x]

\* a list of a type the switches of Eq.Build and Neq.Build have no case for
Floats(l) == [t |-> "[]float64", v |-> l]

ListTypes == {"[]string", "[]int", "[]int32", "[]int64", "[]uint", "[]uint32",
              "[]uint64", "[]interface{}"}

(***************************************************************************)
(* mockBuilder: bytes.Buffer (kept as the chunks written, String() joins   *)
(* them), vars, errors.  panicked records that a run-time panic unwound    *)
(* the render: nothing is written after it.                                *)
(***************************************************************************)
NewBuilder == [buf |-> <<>>, vars |-> <<>>, errors |-> <<>>, panicked |-> FALSE]

String(b) == Concat(b.buf)

WriteString(b, s) == IF b.panicked THEN b ELSE [b EXCEPT !.buf = Append(@, s)]

WriteByte(b, c) == IF b.panicked THEN b ELSE [b EXCEPT !.buf = Append(@, c)]

\* the mock quotes with a backtick, which a TLA+ string cannot hold: QuoteChar
\* stands for it
QuoteChar == "'"

WriteQuoted(b, field) == WriteString(b, QuoteChar \o field \o QuoteChar)

Digit(d) == <<"0", "1", "2", "3", "4", "5", "6", "7", "8", "9">>[d + 1]

RECURSIVE Itoa(_)
Itoa(n) == IF n < 10 THEN Digit(n) ELSE Itoa(n \div 10) \o Digit(n % 10)

Placeholder(n) == "$" \o Itoa(n)

RECURSIVE AddVarFrom(_, _, _)
AddVarFrom(b, vs, i) ==
    IF i > Len(vs) \/ b.panicked THEN b
    ELSE LET b1 == [b EXCEPT !.vars = Append(@, vs[i])]
             b2 == IF i > 1 THEN WriteString(b1, ",") ELSE b1
             b3 == WriteString(b2, Placeholder(Len(b1.vars)))
         IN AddVarFrom(b3, vs, i + 1)

AddVar(b, vs) == AddVarFrom(b, vs, 1)

AddError(b, err) == IF err = "nil" THEN b ELSE [b EXCEPT !.errors = Append(@, err)]

Panic(b) == [b EXCEPT !.panicked = TRUE]

(***************************************************************************)
(* Expression nodes.                                                       *)
(***************************************************************************)
NilExpr == [kind |-> "nil"]

Eq(c, v) == [kind |-> "Eq", Column |-> c, Value |-> v]

Neq(c, v) == [kind |-> "Neq", Column |-> c, Value |-> v]

Gt(c, v) == [kind |-> "Gt", Column |-> c, Value |-> v]

Gte(c, v) == [kind |-> "Gte", Column |-> c, Value |-> v]

Lt(c, v) == [kind |-> "Lt", Column |-> c, Value |-> v]

Lte(c, v) == [kind |-> "Lte", Column |-> c, Value |-> v]

Like(c, v) == [kind |-> "Like", Column |-> c, Value |-> v]

INExpr(c, vs) == [kind |-> "IN", Column |-> c, Values |-> vs]

AndExpr(es) == [kind |-> "AndExpr", Exprs |-> es]

OrExpr(es) == [kind |-> "OrExpr", Exprs |-> es]

NotExpr(es) == [kind |-> "NotExpr", Exprs |-> es]

LeafKinds == {"Eq", "Neq", "Gt", "Gte", "Lt", "Lte", "Like", "IN"}

GroupKinds == {"AndExpr", "OrExpr", "NotExpr"}

\* mutant: Like has no NegationBuild method
IsNegationExpressionBuilder_NoLike(e) ==
    e.kind \in {"IN", "Eq", "Neq", "Gt", "Gte", "Lt", "Lte"}

\* the types with a NegationBuild method
IsNegationExpressionBuilder(e) ==
    e.kind \in {"IN", "Eq", "Neq", "Gt", "Gte", "Lt", "Lte", "Like"}

(***************************************************************************)
(* Leaf rendering.                                                         *)
(***************************************************************************)
eqNilReflect(value) == value.t = "*int" /\ value.v = 0

\* mutant: only the untyped nil is recognized
eqNil_NoReflect(value) == value.t = "nil"

eqNil(value) ==
    LET val == IF value.t = "Valuer" /\ ~eqNilReflect(value) THEN value.v ELSE value
    IN val.t = "nil" \/ eqNilReflect(val)

RECURSIVE buildArrayFrom(_, _, _)
buildArrayFrom(b, values, i) ==
    IF i > Len(values) THEN b
    ELSE LET b1 == IF i > 1 THEN WriteByte(b, ",") ELSE b
         IN buildArrayFrom(AddVar(b1, <<values[i]>>), values, i + 1)

buildEqArray(b, values) ==
    IF Len(values) = 0 THEN WriteString(b, " IN (NULL)")
    ELSE WriteByte(buildArrayFrom(WriteString(b, " IN ("), values, 1), ")")

\* mutant: the list of a Neq is written as that of an Eq
buildNeqArray_In(b, values) ==
    IF Len(values) = 0 THEN WriteString(b, " IN (NULL)")
    ELSE WriteByte(buildArrayFrom(WriteString(b, " IN ("), values, 1), ")")

buildNeqArray(b, values) ==
    IF Len(values) = 0 THEN WriteString(b, " NOT IN (NULL)")
    ELSE WriteByte(buildArrayFrom(WriteString(b, " NOT IN ("), values, 1), ")")

\* mutant: the column is handed to the sink as a parameter
Eq_Build_ColumnParam(eq, b) ==
    LET b1 == AddVar(b, <<GoString(eq.Column)>>)
    IN IF eq.Value.t \in ListTypes THEN buildEqArray(b1, eq.Value.v)
       ELSE IF eqNil(eq.Value) THEN WriteString(b1, " IS NULL")
       ELSE AddVar(WriteString(b1, " = "), <<eq.Value>>)

Eq_Build(eq, b) ==
    LET b1 == WriteQuoted(b, eq.Column)
    IN IF eq.Value.t \in ListTypes THEN buildEqArray(b1, eq.Value.v)
       ELSE IF eqNil(eq.Value) THEN WriteString(b1, " IS NULL")
       ELSE AddVar(WriteString(b1, " = "), <<eq.Value>>)

Neq_Build(neq, b) ==
    LET b1 == WriteQuoted(b, neq.Column)
    IN IF neq.Value.t \in ListTypes THEN buildNeqArray(b1, neq.Value.v)
       ELSE IF eqNil(neq.Value) THEN WriteString(b1, " IS NOT NULL")
       ELSE AddVar(WriteString(b1, " <> "), <<neq.Value>>)

Gt_Build(gt, b) == AddVar(WriteString(WriteQuoted(b, gt.Column), " > "), <<gt.Value>>)

Gte_Build(gte, b) == AddVar(WriteString(WriteQuoted(b, gte.Column), " >= "), <<gte.Value>>)

Lt_Build(lt, b) == AddVar(WriteString(WriteQuoted(b, lt.Column), " < "), <<lt.Value>>)

Lte_Build(lte, b) == AddVar(WriteString(WriteQuoted(b, lte.Column), " <= "), <<lte.Value>>)

Like_Build(like, b) ==
    AddVar(WriteString(WriteQuoted(b, like.Column), " LIKE "), <<like.Value>>)

Like_NegationBuild(like, b) ==
    AddVar(WriteString(WriteQuoted(b, like.Column), " NOT LIKE "), <<like.Value>>)

\* mutant: no case for the empty list
IN_Build_NoEmpty(in, b) ==
    LET b1 == WriteQuoted(b, in.Column)
    IN IF Len(in.Values) = 1 /\ in.Values[1].t # "[]interface{}"
       THEN AddVar(WriteString(b1, " = "), <<in.Values[1]>>)
       ELSE WriteByte(AddVar(WriteString(b1, " IN ("), in.Values), ")")

IN_Build(in, b) ==
    LET b1 == WriteQuoted(b, in.Column)
    IN IF Len(in.Values) = 0 THEN WriteString(b1, " IN (NULL)")
       ELSE IF Len(in.Values) = 1 /\ in.Values[1].t # "[]interface{}"
            THEN AddVar(WriteString(b1, " = "), <<in.Values[1]>>)
       ELSE WriteByte(AddVar(WriteString(b1, " IN ("), in.Values), ")")

\* mutant: a single value is not collapsed to <>
IN_NegationBuild_NoCollapse(in, b) ==
    LET b1 == WriteQuoted(b, in.Column)
    IN IF Len(in.Values) = 0 THEN WriteString(b1, " IS NOT NULL")
       ELSE WriteByte(AddVar(WriteString(b1, " NOT IN ("), in.Values), ")")

IN_NegationBuild(in, b) ==
    LET b1 == WriteQuoted(b, in.Column)
    IN IF Len(in.Values) = 0 THEN WriteString(b1, " IS NOT NULL")
       ELSE IF Len(in.Values) = 1 /\ in.Values[1].t # "[]interface{}"
            THEN AddVar(WriteString(b1, " <> "), <<in.Values[1]>>)
       ELSE WriteByte(AddVar(WriteString(b1, " NOT IN ("), in.Values), ")")

Eq_NegationBuild(eq, b) == Neq_Build(eq, b)

Neq_NegationBuild(neq, b) == Eq_Build(neq, b)

Gt_NegationBuild(gt, b) == Lte_Build(gt, b)

\* mutant: >= is inverted to <=
Gte_NegationBuild_Lte(gte, b) == Lte_Build(gte, b)

Gte_NegationBuild(gte, b) == Lt_Build(gte, b)

Lt_NegationBuild(lt, b) == Gte_Build(lt, b)

Lte_NegationBuild(lte, b) == Gt_Build(lte, b)

\* NegationExpressionBuilder.NegationBuild, dispatched on the dynamic type
NegationBuild(e, b) ==
    CASE e.kind = "IN" -> IN_NegationBuild(e, b)
      [] e.kind = "Eq" -> Eq_NegationBuild(e, b)
      [] e.kind = "Neq" -> Neq_NegationBuild(e, b)
      [] e.kind = "Gt" -> Gt_NegationBuild(e, b)
      [] e.kind = "Gte" -> Gte_NegationBuild(e, b)
      [] e.kind = "Lt" -> Lt_NegationBuild(e, b)
      [] e.kind = "Lte" -> Lte_NegationBuild(e, b)
      [] e.kind = "Like" -> Like_NegationBuild(e, b)

(***************************************************************************)
(* Combinators.  Build is the dynamic dispatch of Expression.Build; a nil  *)
(* Expression panics when Build is called on it.                           *)
(***************************************************************************)
AndWithSpace == " AND "

OrWithSpace == " OR "

RECURSIVE Build(_, _)

RECURSIVE buildExprsFrom(_, _, _, _)
\* mutant: any OrExpr forces the OR joiner, whatever its number of children
buildExprsFrom_AnyOr(exprs, b, joinCond, idx) ==
    IF idx > Len(exprs) \/ b.panicked THEN b
    ELSE LET e == exprs[idx]
             b1 == IF idx > 1
                   THEN IF e.kind = "OrExpr"
                        THEN WriteString(b, OrWithSpace)
                        ELSE WriteString(b, joinCond)
                   ELSE b
         IN buildExprsFrom(exprs, Build(e, b1), joinCond, idx + 1)

buildExprsFrom(exprs, b, joinCond, idx) ==
    IF idx > Len(exprs) \/ b.panicked THEN b
    ELSE LET e == exprs[idx]
             b1 == IF idx > 1
                   THEN IF e.kind = "OrExpr" /\ Len(e.Exprs) = 1
                        THEN WriteString(b, OrWithSpace)
                        ELSE WriteString(b, joinCond)
                   ELSE b
         IN buildExprsFrom(exprs, Build(e, b1), joinCond, idx + 1)

buildExprs(exprs, b, joinCond) == buildExprsFrom(exprs, b, joinCond, 1)

\* mutant: parentheses also around a single child
AndExpr_Build_AlwaysParen(and, b) ==
    WriteByte(buildExprs(and.Exprs, WriteByte(b, "("), " AND "), ")")

AndExpr_Build(and, b) ==
    IF Len(and.Exprs) > 1
    THEN WriteByte(buildExprs(and.Exprs, WriteByte(b, "("), " AND "), ")")
    ELSE buildExprs(and.Exprs, b, " AND ")

\* mutant: the children are joined with AND
OrExpr_Build_AndJoin(or, b) ==
    IF Len(or.Exprs) > 1
    THEN WriteByte(buildExprs(or.Exprs, WriteByte(b, "("), " AND "), ")")
    ELSE buildExprs(or.Exprs, b, " AND ")

OrExpr_Build(or, b) ==
    IF Len(or.Exprs) > 1
    THEN WriteByte(buildExprs(or.Exprs, WriteByte(b, "("), " OR "), ")")
    ELSE buildExprs(or.Exprs, b, " OR ")

\* the loop of the branch taken when some child has a NegationBuild
RECURSIVE negationLoop(_, _, _)
\* mutant: the negated children are joined with OR
negationLoop_OrJoin(exprs, b, idx) ==
    IF idx > Len(exprs) \/ b.panicked THEN b
    ELSE LET c == exprs[idx]
             b1 == IF idx > 1 THEN WriteString(b, " OR ") ELSE b
             b2 == IF IsNegationExpressionBuilder(c)
                   THEN NegationBuild(c, b1)
                   ELSE Build(c, b1)
         IN negationLoop(exprs, b2, idx + 1)

negationLoop(exprs, b, idx) ==
    IF idx > Len(exprs) \/ b.panicked THEN b
    ELSE LET c == exprs[idx]
             b1 == IF idx > 1 THEN WriteString(b, " AND ") ELSE b
             b2 == IF IsNegationExpressionBuilder(c)
                   THEN NegationBuild(c, b1)
                   ELSE Build(c, b1)
         IN negationLoop(exprs, b2, idx + 1)

\* the loop of the branch that writes the NOT keyword
RECURSIVE textualLoop(_, _, _)
\* mutant: only an OrExpr of one child takes the OR joiner, as in buildExprs
textualLoop_SingleOr(exprs, b, idx) ==
    IF idx > Len(exprs) \/ b.panicked THEN b
    ELSE LET c == exprs[idx]
             b1 == IF idx > 1
                   THEN IF c.kind = "OrExpr" /\ Len(c.Exprs) = 1
                        THEN WriteString(b, " OR ")
                        ELSE WriteString(b, " AND ")
                   ELSE b
         IN textualLoop(exprs, Build(c, b1), idx + 1)

textualLoop(exprs, b, idx) ==
    IF idx > Len(exprs) \/ b.panicked THEN b
    ELSE LET c == exprs[idx]
             b1 == IF idx > 1
                   THEN IF c.kind = "OrExpr"
                        THEN WriteString(b, " OR ")
                        ELSE WriteString(b, " AND ")
                   ELSE b
         IN textualLoop(exprs, Build(c, b1), idx + 1)

\* mutant: the negation branch is taken only when every child has NegationBuild
anyNegationBuilder_All(exprs) ==
    \A i \in 1..Len(exprs) : IsNegationExpressionBuilder(exprs[i])

anyNegationBuilder(exprs) ==
    \E i \in 1..Len(exprs) : IsNegationExpressionBuilder(exprs[i])

NotExpr_Build(not, b) ==
    IF anyNegationBuilder(not.Exprs)
    THEN LET b1 == IF Len(not.Exprs) > 1 THEN WriteByte(b, "(") ELSE b
             b2 == negationLoop(not.Exprs, b1, 1)
         IN IF Len(not.Exprs) > 1 THEN WriteByte(b2, ")") ELSE b2
    ELSE LET b0 == WriteString(b, "NOT ")
             b1 == IF Len(not.Exprs) > 1 THEN WriteByte(b0, "(") ELSE b0
             b2 == textualLoop(not.Exprs, b1, 1)
         IN IF Len(not.Exprs) > 1 THEN WriteByte(b2, ")") ELSE b2

Build(e, b) ==
    IF b.panicked THEN b
    ELSE CASE e.kind = "nil" -> Panic(b)
           [] e.kind = "IN" -> IN_Build(e, b)
           [] e.kind = "Eq" -> Eq_Build(e, b)
           [] e.kind = "Neq" -> Neq_Build(e, b)
           [] e.kind = "Gt" -> Gt_Build(e, b)
           [] e.kind = "Gte" -> Gte_Build(e, b)
           [] e.kind = "Lt" -> Lt_Build(e, b)
           [] e.kind = "Lte" -> Lte_Build(e, b)
           [] e.kind = "Like" -> Like_Build(e, b)
           [] e.kind = "AndExpr" -> AndExpr_Build(e, b)
           [] e.kind = "OrExpr" -> OrExpr_Build(e, b)
           [] e.kind = "NotExpr" -> NotExpr_Build(e, b)

(***************************************************************************)
(* The constructors And, Or, Not.                                          *)
(***************************************************************************)
And(exprs) ==
    IF Len(exprs) = 0 THEN NilExpr
    ELSE IF Len(exprs) = 1 /\ exprs[1].kind # "OrExpr" THEN exprs[1]
    ELSE AndExpr(exprs)

Or(exprs) == IF Len(exprs) = 0 THEN NilExpr ELSE OrExpr(exprs)

Not(exprs) ==
    IF Len(exprs) = 0 THEN NilExpr
    ELSE IF Len(exprs) = 1 /\ exprs[1].kind = "AndExpr" THEN NotExpr(exprs[1].Exprs)
    ELSE NotExpr(exprs)

(***************************************************************************)
(* clause.Where, clause.OrderBys, clause.Pagination and SelectQuery.Build. *)
(***************************************************************************)
\* mutant: a lone AndExpr is not unwrapped
Where_Build_NoUnwrap(w, b) ==
    IF Len(w.Exprs) > 0
    THEN buildExprs(w.Exprs, WriteString(b, " WHERE "), AndWithSpace)
    ELSE b

Where_Build(w, b) ==
    LET exprs == IF Len(w.Exprs) = 1 /\ w.Exprs[1].kind = "AndExpr"
                 THEN w.Exprs[1].Exprs
                 ELSE w.Exprs
    IN IF Len(exprs) > 0
       THEN buildExprs(exprs, WriteString(b, " WHERE "), AndWithSpace)
       ELSE b

\* mutant: the merged list is put in front of the receiver's
Where_Merge_InFront(w, other) ==
    IF Len(other.Exprs) > 0 THEN [Exprs |-> other.Exprs \o w.Exprs] ELSE w

Where_Merge(w, other) ==
    IF Len(other.Exprs) > 0 THEN [Exprs |-> w.Exprs \o other.Exprs] ELSE w

OrderBy_Build(o, b) ==
    IF o.Desc THEN WriteString(WriteQuoted(b, o.Column), " DESC")
    ELSE WriteString(WriteQuoted(b, o.Column), " ASC")

RECURSIVE orderBysFrom(_, _, _)
orderBysFrom(o, b, idx) ==
    IF idx > Len(o) THEN b
    ELSE LET b1 == IF idx > 1 THEN WriteString(b, ", ") ELSE b
         IN orderBysFrom(o, OrderBy_Build(o[idx], b1), idx + 1)

OrderBys_Build(o, b) ==
    orderBysFrom(o, IF Len(o) > 0 THEN WriteString(b, " ORDER BY ") ELSE b, 1)

\* mutant: a Limit of zero is written too
Pagination_Build_ZeroLimit(p, b) ==
    LET b1 == IF p.Limit # <<>> /\ p.Limit[1] >= 0
              THEN AddVar(WriteString(b, " LIMIT "), <<GoInt(p.Limit[1])>>)
              ELSE b
    IN IF p.Offset > 0
       THEN AddVar(WriteString(b1, " OFFSET "), <<GoInt(p.Offset)>>)
       ELSE b1

\* Limit is a *int: <<>> is the nil pointer, <<n>> points to n
Pagination_Build(p, b) ==
    LET b1 == IF p.Limit # <<>> /\ p.Limit[1] > 0
              THEN AddVar(WriteString(b, " LIMIT "), <<GoInt(p.Limit[1])>>)
              ELSE b
    IN IF p.Offset > 0
       THEN AddVar(WriteString(b1, " OFFSET "), <<GoInt(p.Offset)>>)
       ELSE b1

RECURSIVE fieldsFrom(_, _, _)
fieldsFrom(fields, b, i) ==
    IF i > Len(fields) THEN b
    ELSE LET b1 == IF i > 1 THEN WriteString(b, ", ") ELSE b
         IN fieldsFrom(fields, WriteQuoted(b1, fields[i]), i + 1)

SelectQuery_Build(q, b) ==
    LET b1 == WriteString(b, "SELECT ")
        b2 == IF Len(q.fields) > 0 THEN fieldsFrom(q.fields, b1, 1)
              ELSE WriteString(b1, "*")
        b3 == IF q.table # "" THEN WriteQuoted(WriteString(b2, " FROM "), q.table)
              ELSE b2
        b4 == Where_Build(q.where, b3)
        b5 == OrderBys_Build(q.orderbys, b4)
    IN Pagination_Build(q.pagination, b5)

(***************************************************************************)
(* The fluent layer: buildCondition, WhereBuilder (the builder a closure   *)
(* runs on) and where[P] (the Where component of a query).                 *)
(* A call is [m, column, args]; column is a Go value, a closure            *)
(* [t |-> "func", v |-> calls], a [t |-> "clause.Where", v |-> exprs], an  *)
(* [t |-> "Expression", v |-> e] or a [t |-> "[]clause.Expression"].       *)
(***************************************************************************)
ErrInvalidOperator == "invalid operator"

ErrInvalidCondition == "invalid condition"

Func(calls) == [t |-> "func", v |-> calls]

ClauseWhere(es) == [t |-> "clause.Where", v |-> es]

Expression(e) == [t |-> "Expression", v |-> e]

Expressions(es) == [t |-> "[]clause.Expression", v |-> es]

Call(m, column, args) == [m |-> m, column |-> column, args |-> args]

Ok(exprs) == [exprs |-> exprs, err |-> "nil", panicked |-> FALSE]

Err(e) == [exprs |-> <<>>, err |-> e, panicked |-> FALSE]

Panicked == [exprs |-> <<>>, err |-> "nil", panicked |-> TRUE]

NewWhereBuilder == [where |-> [Exprs |-> <<>>], Error |-> "nil", panicked |-> FALSE]

RECURSIVE buildCondition(_, _)

WhereBuilder_Where(w, field, args) ==
    LET r == buildCondition(field, args)
    IN IF r.panicked THEN [w EXCEPT !.panicked = TRUE]
       ELSE IF r.err # "nil" THEN [w EXCEPT !.Error = r.err]
       ELSE [w EXCEPT !.where = Where_Merge(@, [Exprs |-> r.exprs])]

WhereBuilder_OrWhere(w, field, args) ==
    LET r == buildCondition(field, args)
    IN IF r.panicked THEN [w EXCEPT !.panicked = TRUE]
       ELSE IF r.err # "nil" THEN [w EXCEPT !.Error = r.err]
       ELSE IF Len(r.exprs) > 0
            THEN [w EXCEPT !.where = Where_Merge(@, [Exprs |-> <<Or(r.exprs)>>])]
       ELSE w

WhereBuilder_Not(w, field, args) ==
    LET r == buildCondition(field, args)
    IN IF r.panicked THEN [w EXCEPT !.panicked = TRUE]
       ELSE IF r.err # "nil" THEN [w EXCEPT !.Error = r.err]
       ELSE [w EXCEPT !.where = Where_Merge(@, [Exprs |-> <<Not(r.exprs)>>])]

\* a method call on the Wherer that a closure is given
WhereBuilder_Call(w, call) ==
    CASE call.m = "Where" -> WhereBuilder_Where(w, call.column, call.args)
      [] call.m = "OrWhere" -> WhereBuilder_OrWhere(w, call.column, call.args)
      [] call.m = "Not" -> WhereBuilder_Not(w, call.column, call.args)

\* the closure body: the fluent calls it makes on the builder it is given
RECURSIVE runClosure(_, _, _)
runClosure(calls, w, i) ==
    IF i > Len(calls) \/ w.panicked THEN w
    ELSE runClosure(calls, WhereBuilder_Call(w, calls[i]), i + 1)

buildCondition(column, args) ==
    CASE column.t = "func" ->
             LET w == runClosure(column.v, NewWhereBuilder, 1)
             IN IF w.panicked THEN Panicked ELSE Ok(<<And(w.where.Exprs)>>)
      [] column.t = "clause.Where" -> Ok(column.v)
      [] column.t = "[]clause.Expression" -> Ok(column.v)
      [] column.t = "Expression" -> Ok(<<column.v>>)
      [] column.t = "string" ->
             IF Len(args) = 0 THEN Ok(<<Eq("", column)>>)
             ELSE IF Len(args) = 1
                  THEN IF args[1].t = "[]interface{}"
                       THEN Ok(<<INExpr(column.v, args[1].v)>>)
                       ELSE Ok(<<Eq(column.v, args[1])>>)
             ELSE IF args[1].t # "string" THEN Err(ErrInvalidOperator)
             ELSE CASE args[1].v = "=" -> Ok(<<Eq(column.v, args[2])>>)
                    [] args[1].v = "!=" -> Ok(<<Neq(column.v, args[2])>>)
                    [] args[1].v = ">" -> Ok(<<Gt(column.v, args[2])>>)
                    [] args[1].v = ">=" -> Ok(<<Gte(column.v, args[2])>>)
                    [] args[1].v = "<" -> Ok(<<Lt(column.v, args[2])>>)
                    [] args[1].v = "<=" -> Ok(<<Lte(column.v, args[2])>>)
                    [] args[1].v = "LIKE" -> Ok(<<Like(column.v, args[2])>>)
                    [] args[1].v = "IN" ->
                           IF args[2].t = "[]interface{}"
                           THEN Ok(<<INExpr(column.v, args[2].v)>>)
                           ELSE Panicked
                    [] OTHER -> Err(ErrInvalidOperator)
      [] OTHER -> Err(ErrInvalidCondition)

\* errorRecord.setError
setError(e, err) == [e EXCEPT !.Error = err]

\* where[P].Where / OrWhere / Not on a query q = [Value, Error, panicked]:
\* Value is the clause.Where, Error the parent's errorRecord
where_Where(q, field, args) ==
    LET r == buildCondition(field, args)
    IN IF r.panicked THEN [q EXCEPT !.panicked = TRUE]
       ELSE IF r.err # "nil" THEN setError(q, r.err)
       ELSE [q EXCEPT !.Value = Where_Merge(@, [Exprs |-> r.exprs])]

\* mutant: a failed call also empties the Where list
where_OrWhere_Reset(q, field, args) ==
    LET r == buildCondition(field, args)
    IN IF r.panicked THEN [q EXCEPT !.panicked = TRUE]
       ELSE IF r.err # "nil" THEN [setError(q, r.err) EXCEPT !.Value = [Exprs |-> <<>>]]
       ELSE IF Len(r.exprs) > 0
            THEN [q EXCEPT !.Value = Where_Merge(@, [Exprs |-> <<Or(r.exprs)>>])]
       ELSE q

where_OrWhere(q, field, args) ==
    LET r == buildCondition(field, args)
    IN IF r.panicked THEN [q EXCEPT !.panicked = TRUE]
       ELSE IF r.err # "nil" THEN setError(q, r.err)
       ELSE IF Len(r.exprs) > 0
            THEN [q EXCEPT !.Value = Where_Merge(@, [Exprs |-> <<Or(r.exprs)>>])]
       ELSE q

where_Not(q, field, args) ==
    LET r == buildCondition(field, args)
    IN IF r.panicked THEN [q EXCEPT !.panicked = TRUE]
       ELSE IF r.err # "nil" THEN setError(q, r.err)
       ELSE [q EXCEPT !.Value = Where_Merge(@, [Exprs |-> <<Not(r.exprs)>>])]

(***************************************************************************)
(* orderbys[P] and pagination[P]: the ORDER BY and LIMIT / OFFSET          *)
(* components of a query.  The strings that buildOrderBy parses are        *)
(* sequences of characters; the Column of a clause.OrderBy is the string   *)
(* they spell.                                                             *)
(***************************************************************************)
ErrInvalidOrderBy == "invalid order by"

\* a Go string given to OrderBy, as its characters
Chars(cs) == [t |-> "string", v |-> cs]

ClauseOrderBy(o) == [t |-> "clause.OrderBy", v |-> o]

OrderBySlice(os) == [t |-> "[]clause.OrderBy", v |-> os]

ClauseOrderBys(os) == [t |-> "clause.OrderBys", v |-> os]

\* unicode.IsSpace, on the characters used
IsSpace(c) == c \in {" ", "\t", "\n"}

RECURSIVE TrimLeft(_)
TrimLeft(s) == IF s # <<>> /\ IsSpace(Head(s)) THEN TrimLeft(Tail(s)) ELSE s

RECURSIVE TrimRight(_)
TrimRight(s) ==
    IF s # <<>> /\ IsSpace(s[Len(s)]) THEN TrimRight(SubSeq(s, 1, Len(s) - 1)) ELSE s

\* strings.TrimSpace
TrimSpace(s) == TrimRight(TrimLeft(s))

\* strings.ToLower, on the characters used
LowerOf(c) ==
    CASE c = "A" -> "a" [] c = "C" -> "c" [] c = "D" -> "d" [] c = "E" -> "e"
      [] c = "S" -> "s" [] OTHER -> c

ToLower(s) == [i \in 1..Len(s) |-> LowerOf(s[i])]

RECURSIVE SplitFrom(_, _, _)
\* the pieces of s after the piece cur, which is being read
SplitFrom(s, sep, cur) ==
    IF s = <<>> THEN <<cur>>
    ELSE IF Head(s) = sep THEN <<cur>> \o SplitFrom(Tail(s), sep, <<>>)
    ELSE SplitFrom(Tail(s), sep, Append(cur, Head(s)))

\* strings.Split(s, sep) for a separator of one character
Split(s, sep) == SplitFrom(s, sep, <<>>)

Desc == <<"d", "e", "s", "c">>

RECURSIVE parseOrders(_, _)
\* buildOrderBy, the loop over the fragments from the idx-th on
parseOrders(orderStrs, idx) ==
    IF idx > Len(orderStrs) THEN <<>>
    ELSE LET orderStr == TrimSpace(orderStrs[idx])
             pices == Split(orderStr, " ")
             fieldName == TrimSpace(pices[1])
             isDesc == Len(pices) > 1 /\ ToLower(TrimSpace(pices[2])) = Desc
         IN (IF orderStr = <<>> \/ fieldName = <<>> THEN <<>>
             ELSE <<[Column |-> Concat(fieldName), Desc |-> isDesc]>>)
            \o parseOrders(orderStrs, idx + 1)

\* buildOrderBy(column, direction...)
buildOrderBy(column, direction) ==
    IF Len(direction) = 0 THEN parseOrders(Split(column, ","), 1)
    ELSE <<[Column |-> Concat(column), Desc |-> ToLower(direction[1]) = Desc]>>

RECURSIVE onlyOrderBy(_)
\* the further arguments that are a clause.OrderBy
onlyOrderBy(orders) ==
    IF orders = <<>> THEN <<>>
    ELSE (IF Head(orders).t = "clause.OrderBy" THEN <<Head(orders).v>> ELSE <<>>)
         \o onlyOrderBy(Tail(orders))

\* orderbys[P].OrderBy on o = [Value, Error]: Value the clause.OrderBys, Error
\* the parent's errorRecord
\* mutant: a []clause.OrderBy replaces the list
orderbys_OrderBy_Replace(o, field, orders) ==
    CASE field.t = "string" ->
             IF Len(orders) > 0 /\ orders[1].t = "string"
             THEN [o EXCEPT !.Value = @ \o buildOrderBy(field.v, <<orders[1].v>>)]
             ELSE [o EXCEPT !.Value = @ \o buildOrderBy(field.v, <<>>)]
      [] field.t = "clause.OrderBy" ->
             [o EXCEPT !.Value = Append(@, field.v) \o onlyOrderBy(orders)]
      [] field.t = "[]clause.OrderBy" -> [o EXCEPT !.Value = field.v]
      [] field.t = "clause.OrderBys" -> [o EXCEPT !.Value = @ \o field.v]
      [] OTHER -> setError(o, ErrInvalidOrderBy)

orderbys_OrderBy(o, field, orders) ==
    CASE field.t = "string" ->
             IF Len(orders) > 0 /\ orders[1].t = "string"
             THEN [o EXCEPT !.Value = @ \o buildOrderBy(field.v, <<orders[1].v>>)]
             ELSE [o EXCEPT !.Value = @ \o buildOrderBy(field.v, <<>>)]
      [] field.t = "clause.OrderBy" ->
             [o EXCEPT !.Value = Append(@, field.v) \o onlyOrderBy(orders)]
      [] field.t = "[]clause.OrderBy" -> [o EXCEPT !.Value = @ \o field.v]
      [] field.t = "clause.OrderBys" -> [o EXCEPT !.Value = @ \o field.v]
      [] OTHER -> setError(o, ErrInvalidOrderBy)

\* pagination[P].Limit: p.Value.Limit = &limit
pagination_Limit(p, limit) == [p EXCEPT !.Limit = <<limit>>]

\* pagination[P].Offset
pagination_Offset(p, offset) == [p EXCEPT !.Offset = offset]

\* Go's int: 32 bits wide on the 32-bit builds (GOARCH=386, arm), 64 bits on
\* the others; the arithmetic below is that of the 32-bit builds, and it is
\* the same modulo 2^64 on the others
MaxInt == 2147483647

MinInt == -MaxInt - 1

\* x + y on int: two's complement, wrapping around silently
WrapAdd(x, y) ==
    IF x >= 0 /\ y >= 0 /\ x > MaxInt - y
    THEN (x - MaxInt - 1) + (y - MaxInt - 1)
    ELSE IF x < 0 /\ y < 0 /\ x < MinInt - y
         THEN (x + MaxInt + 1) + (y + MaxInt + 1)
         ELSE x + y

\* x * y on int for x >= 0, by doubling; wraps around as the additions do
RECURSIVE WrapMul(_, _)
WrapMul(x, y) ==
    IF x = 0 THEN 0
    ELSE LET rest == WrapMul(x \div 2, WrapAdd(y, y))
         IN IF x % 2 = 1 THEN WrapAdd(y, rest) ELSE rest

\* pagination[P].Paginate; page - 1 cannot wrap, page being above zero
pagination_Paginate(p, page, pageSize) ==
    LET p1 == IF page > 0
              THEN pagination_Offset(p, WrapMul(page - 1, pageSize))
              ELSE p
    IN IF pageSize > 0 THEN pagination_Limit(p1, pageSize) ELSE p1

(***************************************************************************)
(* Memory.  A Go slice is a header [arr, len, cap] over an array; copying  *)
(* a clause.Where copies the header, so both copies read the same array.   *)
(* mem.Exprs[o] is the header of the Where of owner o ("q": the Query,     *)
(* "sq": the SelectQuery made from it), mem.arrays the arrays, each of its *)
(* capacity in cells.  arr = 0 is the nil slice.  An array that no header  *)
(* refers to is garbage and is cleared.                                    *)
(***************************************************************************)
Owners == {"q", "sq"}

Other(who) == IF who = "q" THEN "sq" ELSE "q"

NilSlice == [arr |-> 0, len |-> 0, cap |-> 0]

NewMem == [arrays |-> <<<<>>, <<>>>>, Exprs |-> [o \in Owners |-> NilSlice]]

\* w.Exprs read through its header
Elems(m, who) ==
    LET h == m.Exprs[who]
    IN IF h.arr = 0 THEN <<>> ELSE SubSeq(m.arrays[h.arr], 1, h.len)

\* the array make() returns: one that the other owner does not refer to
FreeArray(m, who) == IF m.Exprs[Other(who)].arr = 1 THEN 2 ELSE 1

Collect(m) ==
    [m EXCEPT !.arrays = [a \in 1..2 |->
                             IF \E o \in Owners : m.Exprs[o].arr = a
                             THEN m.arrays[a] ELSE <<>>]]

\* mutant: the first copy has its arguments swapped, copy(w.Exprs, exprs), so
\* the zero values of the new array are written over the receiver's array
MergeInto_SwappedCopy(m, who, other) ==
    LET h == m.Exprs[who]
        n == h.len + Len(other.Exprs)
        a == FreeArray(m, who)
        zeroed == IF h.arr = 0 THEN m
                  ELSE [m EXCEPT !.arrays[h.arr] = [i \in 1..h.len |-> NilExpr]]
    IN IF Len(other.Exprs) = 0 THEN m
       ELSE Collect([zeroed EXCEPT
                !.arrays[a] = [i \in 1..h.len |-> NilExpr] \o other.Exprs,
                !.Exprs[who] = [arr |-> a, len |-> n, cap |-> n]])

\* (w *Where).Merge on the Where of owner who: make, copy, copy, w.Exprs = exprs
MergeInto(m, who, other) ==
    IF Len(other.Exprs) > 0
    THEN LET exprs == Where_Merge([Exprs |-> Elems(m, who)], other).Exprs
             a == FreeArray(m, who)
         IN Collect([m EXCEPT
                !.arrays[a] = exprs,
                !.Exprs[who] = [arr |-> a, len |-> Len(exprs), cap |-> Len(exprs)]])
    ELSE m

\* the clause.Where that where[P].Where / OrWhere / Not hand to Merge, given
\* the expressions buildCondition returned (<<>> when Merge is not called)
whereArgument(method, expressions) ==
    CASE method = "Where" -> expressions
      [] method = "OrWhere" ->
             IF Len(expressions) > 0 THEN <<Or(expressions)>> ELSE <<>>
      [] method = "Not" -> <<Not(expressions)>>

\* where[P].Where / OrWhere / Not on the Where of owner who
where_Call(m, who, method, field, args) ==
    LET r == buildCondition(field, args)
    IN IF r.panicked \/ r.err # "nil" THEN m
       ELSE MergeInto(m, who, [Exprs |-> whereArgument(method, r.exprs)])

\* Query.Select: the SelectQuery gets a copy of the Query's clause.Where
Query_Select(m) == Collect([m EXCEPT !.Exprs["sq"] = m.Exprs["q"]])

\* mutant: Build keeps the unwrapped list in the Where it is called on
Where_Build_Memory_Unwrapped(m, who) ==
    LET exprs == Elems(m, who)
        a == FreeArray(m, who)
    IN IF Len(exprs) = 1 /\ exprs[1].kind = "AndExpr"
       THEN Collect([m EXCEPT
                !.arrays[a] = exprs[1].Exprs,
                !.Exprs[who] = [arr |-> a, len |-> Len(exprs[1].Exprs),
                                cap |-> Len(exprs[1].Exprs)]])
       ELSE m

\* the memory after (w Where).Build: the receiver is a copy of the Where and
\* the unwrapped list is held in the local exprs, so nothing is stored
Where_Build_Memory(m, who) == m

(***************************************************************************)
(* The ORDER BY lists in memory.  orderbys[P].Value is a slice that        *)
(* OrderBy grows with append, and Select gives the SelectQuery a copy of   *)
(* the Query's header.  m.Value[o] is the header of builder o ("q": the    *)
(* Query; "sq1", "sq2": SelectQuerys made from it), m.arrays the arrays,   *)
(* each of its capacity in cells, unwritten cells holding the zero value.  *)
(***************************************************************************)
Builders == {"q", "sq1", "sq2"}

ZeroOrderBy == [Column |-> "", Desc |-> FALSE]

NewOrderMem == [arrays |-> <<<<>>, <<>>, <<>>>>, Value |-> [o \in Builders |-> NilSlice]]

\* o.Value read through its header
OrderElems(m, who) ==
    LET h == m.Value[who]
    IN IF h.arr = 0 THEN <<>> ELSE SubSeq(m.arrays[h.arr], 1, h.len)

\* the array a growing append allocates: one no other builder refers to
FreshArray(m, who) ==
    CHOOSE a \in 1..3 : \A o \in Builders \ {who} : m.Value[o].arr # a

\* an array that no header refers to is garbage and is cleared
CollectOrders(m) ==
    [m EXCEPT !.arrays = [a \in 1..3 |->
                             IF \E o \in Builders : m.Value[o].arr = a
                             THEN m.arrays[a] ELSE <<>>]]

\* the capacity append gives the new array (runtime growslice, capacities
\* below 256; the size classes leave these capacities of 24-byte entries
\* as they are): the length needed when it exceeds twice the old capacity,
\* else twice the old capacity
GrownCap(cap, needed) == IF needed > 2 * cap THEN needed ELSE 2 * cap

\* o.Value = append(o.Value, xs...): in place when the capacity suffices
AppendTo(m, who, xs) ==
    LET h == m.Value[who]
        n == h.len + Len(xs)
        a == FreshArray(m, who)
        c == GrownCap(h.cap, n)
    IN IF Len(xs) = 0 THEN m
       ELSE IF n <= h.cap
            THEN [m EXCEPT
                     !.arrays[h.arr] = [i \in 1..h.cap |->
                                           IF i > h.len /\ i <= n
                                           THEN xs[i - h.len] ELSE @[i]],
                     !.Value[who] = [h EXCEPT !.len = n]]
       ELSE CollectOrders([m EXCEPT
                !.arrays[a] = OrderElems(m, who) \o xs
                                  \o [i \in 1..(c - n) |-> ZeroOrderBy],
                !.Value[who] = [arr |-> a, len |-> n, cap |-> c]])

\* one append per entry, as the clause.OrderBy case does
RECURSIVE AppendEach(_, _, _)
AppendEach(m, who, xs) ==
    IF xs = <<>> THEN m
    ELSE AppendEach(AppendTo(m, who, <<Head(xs)>>), who, Tail(xs))

\* orderbys[P].OrderBy on the list of builder who; a field of no supported
\* type leaves the list alone
orderbys_OrderBy_Memory(m, who, field, orders) ==
    CASE field.t = "string" ->
             IF Len(orders) > 0 /\ orders[1].t = "string"
             THEN AppendTo(m, who, buildOrderBy(field.v, <<orders[1].v>>))
             ELSE AppendTo(m, who, buildOrderBy(field.v, <<>>))
      [] field.t = "clause.OrderBy" ->
             AppendEach(m, who, <<field.v>> \o onlyOrderBy(orders))
      [] field.t \in {"[]clause.OrderBy", "clause.OrderBys"} ->
             AppendTo(m, who, field.v)
      [] OTHER -> m

\* Query.Select: the SelectQuery gets a copy of the header of the Query
Query_Select_Orders(m, sq) ==
    CollectOrders([m EXCEPT !.Value[sq] = m.Value["q"]])

(***************************************************************************)
(* The inputs of SpecRender: columns, values and expression trees.  Groups *)
(* are never empty: And, Or and Not return nil instead of an empty group.  *)
(***************************************************************************)
Columns == {"a", "b"}

\* "a" is also a column name
Scalars == {GoInt(1), GoInt(2), GoString("a"), Ptr(1)}

NilValues == {Nil, NilPtr, Valuer(Nil)}

ListValues ==
    {Anys(l) : l \in SeqsUpTo({GoInt(1), GoString("a")}, MaxValues)}
        \cup {Ints(l) : l \in SeqsUpTo({GoInt(1), GoInt(2)}, MaxValues)}

Values ==
    Scalars \cup NilValues \cup {Valuer(GoInt(1)), Floats(<<GoInt(1), GoInt(2)>>)}
        \cup ListValues

\* the Values of an IN; the last element is a nested list
INValues == SeqsUpTo({GoInt(1), GoInt(2), Nil, Anys(<<GoInt(1), GoInt(2)>>)}, MaxValues)

Leaf(kind, c, v) == [kind |-> kind, Column |-> c, Value |-> v]

Leaves ==
    {Leaf(k, c, v) : k \in LeafKinds \ {"IN"}, c \in Columns, v \in Values}
        \cup {INExpr(c, vs) : c \in Columns, vs \in INValues}

Group(kind, es) == [kind |-> kind, Exprs |-> es]

Groups(S) == {Group(k, es) : k \in GroupKinds, es \in NonEmptySeqsUpTo(S, MaxExprs)}

\* groups of one or two children
Pairs(S) == {Group(k, es) : k \in GroupKinds, es \in [{1} -> S] \cup [{1, 2} -> S]}

KidLeaves ==
    {Eq("a", GoInt(1)), Eq("b", Nil), Neq("a", Anys(<<GoInt(1), GoInt(2)>>)),
     Gt("b", GoInt(2)), Like("a", GoString("a")), Like("b", GoInt(1)),
     INExpr("a", <<>>), INExpr("b", <<GoInt(1)>>), INExpr("a", <<GoInt(1), GoInt(2)>>)}

TinyLeaves == {Eq("a", GoInt(1)), Like("b", GoString("a"))}

\* a NOT that has to be written as a keyword, to nest under other groups
DeepKids == {Eq("a", GoInt(1)), NotExpr(<<OrExpr(<<Eq("b", GoInt(2)), Like("a", GoString("a"))>>)>>)}

Trees ==
    Leaves \cup Groups(KidLeaves) \cup Pairs(TinyLeaves \cup Groups(TinyLeaves))
        \cup Pairs(DeepKids)

\* the Where lists rendered for a drawn tree
WhereListsOf(e) ==
    {<<>>, <<e>>} \cup (IF e.kind \in GroupKinds THEN {e.Exprs} ELSE {})

Paginations ==
    {[Limit |-> <<>>, Offset |-> 0], [Limit |-> <<0>>, Offset |-> 3],
     [Limit |-> <<2>>, Offset |-> 3]}

OrderByLists ==
    {<<>>, <<[Column |-> "b", Desc |-> TRUE], [Column |-> "a", Desc |-> FALSE]>>}

NoPagination == [Limit |-> <<>>, Offset |-> 0]

(***************************************************************************)
(* SpecRender: render one drawn tree.                                      *)
(***************************************************************************)
InitRender ==
    /\ pc = "ready"
    /\ op = "none"
    /\ expr \in Trees
    /\ where = <<>>
    /\ origin = <<>>
    /\ orderbys = <<>>
    /\ pagination = NoPagination
    /\ Error = "nil"
    /\ builder = NewBuilder
    /\ mem = NewMem

\* e.Build(builder)
ExprBuild ==
    /\ pc = "ready"
    /\ builder' = Build(expr, builder)
    /\ pc' = "built"
    /\ op' = "Build"
    /\ UNCHANGED <<expr, where, origin, orderbys, pagination, Error, mem>>

\* e.NegationBuild(builder), for the types that have the method
ExprNegationBuild ==
    /\ pc = "ready"
    /\ IsNegationExpressionBuilder(expr)
    /\ builder' = NegationBuild(expr, builder)
    /\ pc' = "built"
    /\ op' = "NegationBuild"
    /\ UNCHANGED <<expr, where, origin, orderbys, pagination, Error, mem>>

\* clause.Where{Exprs: w}.Build(builder)
ExprWhereBuild ==
    /\ pc = "ready"
    /\ \E w \in WhereListsOf(expr) :
          /\ where' = w
          /\ builder' = Where_Build([Exprs |-> w], builder)
    /\ pc' = "built"
    /\ op' = "Where.Build"
    /\ UNCHANGED <<expr, origin, orderbys, pagination, Error, mem>>

\* a SelectQuery over the drawn clauses, then Build(builder)
ExprSelectBuild ==
    /\ pc = "ready"
    /\ \E w \in WhereListsOf(expr), p \in Paginations, o \in OrderByLists :
          /\ where' = w
          /\ pagination' = p
          /\ orderbys' = o
          /\ builder' = SelectQuery_Build(
                 [table |-> "a", fields |-> <<"b">>, where |-> [Exprs |-> w],
                  orderbys |-> o, pagination |-> p], builder)
    /\ pc' = "built"
    /\ op' = "SelectQuery.Build"
    /\ UNCHANGED <<expr, origin, Error, mem>>

\* clause.Not(exprs...).Build(builder); the arguments are kept in where
ExprNotBuild ==
    /\ pc = "ready"
    /\ \E w \in WhereListsOf(expr) \ {<<>>} :
          /\ where' = w
          /\ builder' = Build(Not(w), builder)
    /\ pc' = "built"
    /\ op' = "Not.Build"
    /\ UNCHANGED <<expr, origin, orderbys, pagination, Error, mem>>

NextRender ==
    ExprBuild \/ ExprNegationBuild \/ ExprWhereBuild \/ ExprSelectBuild
        \/ ExprNotBuild

SpecRender == InitRender /\ [][NextRender]_vars

(***************************************************************************)
(* The ent adapter: a clause.Where converted to a *sql.Predicate.  A       *)
(* predicate is kept as the tree sql.And, sql.Or, sql.Not and the          *)
(* comparison constructors build; NilPredicate is the nil pointer.  No     *)
(* ExprHandler is set.                                                     *)
(***************************************************************************)
NilPredicate == [kind |-> "nil"]

sql_And(pred1, pred2) == [kind |-> "sql.And", preds |-> <<pred1, pred2>>]

sql_Or(pred1, pred2) == [kind |-> "sql.Or", preds |-> <<pred1, pred2>>]

sql_Not(pred) == [kind |-> "sql.Not", preds |-> <<pred>>]

\* sql.EQ, sql.NEQ, sql.GT, sql.GTE, sql.LT, sql.LTE, sql.Like, sql.In
sql_Compare(name, column, value) ==
    [kind |-> name, Column |-> column, Value |-> value]

sqlAnd(pred1, pred2) == IF pred1 # NilPredicate THEN sql_And(pred1, pred2) ELSE pred2

sqlOr(pred1, pred2) == IF pred1 # NilPredicate THEN sql_Or(pred1, pred2) ELSE pred2

Converted(pred) == [pred |-> pred, err |-> "nil"]

ErrLikeValue == "like value must be string"

RECURSIVE convertToEntPredicate(_, _)
\* the loop over the children of a group, from the nil predicate; stops at
\* the first error
RECURSIVE convertChildren(_, _)
convertChildren(exprs, sub) ==
    IF exprs = <<>> \/ sub.err # "nil" THEN sub
    ELSE convertChildren(Tail(exprs), convertToEntPredicate(sub.pred, Head(exprs)))

convertToEntPredicate(pre, e) ==
    CASE e.kind = "nil" -> Converted(pre)
      [] e.kind = "Eq" -> Converted(sqlAnd(pre, sql_Compare("sql.EQ", e.Column, e.Value)))
      [] e.kind = "Neq" -> Converted(sqlAnd(pre, sql_Compare("sql.NEQ", e.Column, e.Value)))
      [] e.kind = "Gt" -> Converted(sqlAnd(pre, sql_Compare("sql.GT", e.Column, e.Value)))
      [] e.kind = "Gte" -> Converted(sqlAnd(pre, sql_Compare("sql.GTE", e.Column, e.Value)))
      [] e.kind = "Lt" -> Converted(sqlAnd(pre, sql_Compare("sql.LT", e.Column, e.Value)))
      [] e.kind = "Lte" -> Converted(sqlAnd(pre, sql_Compare("sql.LTE", e.Column, e.Value)))
      [] e.kind = "Like" ->
             IF e.Value.t = "string"
             THEN Converted(sqlAnd(pre, sql_Compare("sql.Like", e.Column, e.Value)))
             ELSE [pred |-> NilPredicate, err |-> ErrLikeValue]
      [] e.kind = "IN" -> Converted(sqlAnd(pre, sql_Compare("sql.In", e.Column, e.Values)))
      [] e.kind = "AndExpr" ->
             IF Len(e.Exprs) = 0 THEN Converted(pre)
             ELSE LET sub == convertChildren(e.Exprs, Converted(NilPredicate))
                  IN IF sub.err # "nil" THEN [pred |-> NilPredicate, err |-> sub.err]
                     ELSE IF pre # NilPredicate THEN Converted(sql_And(pre, sub.pred))
                     ELSE sub
      [] e.kind = "OrExpr" ->
             IF Len(e.Exprs) = 0 THEN Converted(NilPredicate)
             ELSE LET sub == convertChildren(e.Exprs, Converted(NilPredicate))
                  IN IF sub.err # "nil" THEN [pred |-> NilPredicate, err |-> sub.err]
                     ELSE Converted(sqlOr(pre, sub.pred))
      [] e.kind = "NotExpr" ->
             IF Len(e.Exprs) = 0 THEN Converted(NilPredicate)
             ELSE LET sub == convertChildren(e.Exprs, Converted(NilPredicate))
                  IN IF sub.err # "nil" THEN [pred |-> NilPredicate, err |-> sub.err]
                     ELSE Converted(sqlAnd(pre, sql_Not(sub.pred)))
      [] OTHER -> Converted(NilPredicate)

\* convertToEntWhere: the entries of the list folded from the nil predicate
convertToEntWhere(w) ==
    LET r == convertChildren(w.Exprs, Converted(NilPredicate))
    IN IF r.err # "nil" THEN [pred |-> NilPredicate, err |-> r.err] ELSE r

(***************************************************************************)
(* Spec: a Query built by fluent calls, then Select().Build.               *)
(***************************************************************************)
One == GoInt(1)

Two == GoInt(2)

WhereOne == Call("Where", GoString("a"), <<One>>)

OrWhereTwo == Call("OrWhere", GoString("b"), <<Two>>)

\* closures: one that adds nothing, and ones that chain calls
Closures ==
    {Func(<<>>), Func(<<WhereOne>>), Func(<<OrWhereTwo>>), Func(<<WhereOne, OrWhereTwo>>)}

Input(column, args) == [column |-> column, args |-> args]

\* (field, args) given to OrWhere and Not: a condition, a list of two, the
\* empty list, an unsupported operator, an unrecognized condition, an "IN"
\* whose operand is no list, and closures
SomeInputs ==
    {Input(GoString("a"), <<One>>),
     Input(Expressions(<<Eq("a", One), OrExpr(<<Eq("b", Two)>>)>>), <<>>),
     Input(Expressions(<<>>), <<>>),
     Input(GoString("a"), <<GoString("<>"), One>>),
     Input(One, <<>>),
     Input(GoString("a"), <<GoString("IN"), One>>),
     Input(Func(<<>>), <<>>),
     Input(Func(<<WhereOne, OrWhereTwo>>), <<>>)}

\* (field, args) given to Where
CondInputs ==
    SomeInputs
        \cup {Input(GoString("a"), <<>>),
              Input(GoString("b"), <<Nil>>),
              Input(GoString("b"), <<Anys(<<One, Two>>)>>),
              Input(GoString("a"), <<GoString(">"), One>>),
              Input(GoString("a"), <<GoString("!="), One>>),
              Input(GoString("a"), <<One, One>>),
              Input(GoString("a"), <<GoString("IN"), Anys(<<One>>)>>),
              Input(Expression(Like("b", GoString("a"))), <<>>),
              Input(Expression(OrExpr(<<Eq("b", Two)>>)), <<>>),
              Input(Expression(OrExpr(<<Eq("a", One), Eq("b", Two)>>)), <<>>),
              Input(ClauseWhere(<<>>), <<>>)}
        \cup {Input(f, <<>>) : f \in Closures}

Table == "users"

Fields == <<"id">>

Init ==
    /\ pc = "ready"
    /\ op = "none"
    /\ expr = NilExpr
    /\ where = <<>>
    /\ origin = <<>>
    /\ orderbys = <<>>
    /\ pagination = NoPagination
    /\ Error = "nil"
    /\ builder = NewBuilder
    /\ mem = NewMem

Query == [Value |-> [Exprs |-> where], Error |-> Error, panicked |-> FALSE]

\* the query after a fluent call; tag names the call in the history
Fluent(q, m, tag) ==
    /\ Len(q.Value.Exprs) <= MaxWhere
    /\ where' = q.Value.Exprs
    /\ origin' = origin \o [i \in 1..(Len(q.Value.Exprs) - Len(where)) |-> tag]
    /\ Error' = q.Error
    /\ pc' = IF q.panicked THEN "panicked" ELSE "ready"
    /\ op' = m
    /\ UNCHANGED <<expr, orderbys, pagination, builder, mem>>

\* q.Where(field, args...)
QWhere ==
    /\ pc = "ready"
    /\ \E in \in CondInputs :
          Fluent(where_Where(Query, in.column, in.args), "Where", "Where")

\* q.OrWhere(field, args...)
QOrWhere ==
    /\ pc = "ready"
    /\ \E in \in SomeInputs :
          Fluent(where_OrWhere(Query, in.column, in.args), "OrWhere",
                 LET r == buildCondition(in.column, in.args)
                 IN IF Len(r.exprs) = 1 THEN "OrWhere1" ELSE "OrWhereN")

\* q.Not(field, args...)
QNot ==
    /\ pc = "ready"
    /\ \E in \in SomeInputs :
          Fluent(where_Not(Query, in.column, in.args), "Not", "Not")

\* q.Select(fields...).Build(builder)
QSelectBuild ==
    /\ pc = "ready"
    /\ builder' = SelectQuery_Build(
           [table |-> Table, fields |-> Fields, where |-> [Exprs |-> where],
            orderbys |-> orderbys, pagination |-> pagination], builder)
    /\ pc' = IF builder'.panicked THEN "panicked" ELSE "built"
    /\ op' = "Select.Build"
    /\ UNCHANGED <<expr, where, origin, orderbys, pagination, Error, mem>>

\* ent.Where(q.Where())(selector), after the same list was rendered: expr
\* holds the predicate given to the selector and the error added to it
QEntWhere ==
    /\ pc = "built"
    /\ expr' = IF Len(where) = 0 THEN Converted(NilPredicate)
               ELSE convertToEntWhere([Exprs |-> where])
    /\ pc' = "converted"
    /\ op' = "ent.Where"
    /\ UNCHANGED <<where, origin, orderbys, pagination, Error, builder, mem>>

Next == QWhere \/ QOrWhere \/ QNot \/ QSelectBuild \/ QEntWhere

Spec == Init /\ [][Next]_vars

(***************************************************************************)
(* Properties.  Text is compared as the string String(b), parameters as    *)
(* the list b.vars.                                                        *)
(***************************************************************************)
Quoted(c) == QuoteChar \o c \o QuoteChar

SameRender(b1, b2) == String(b1) = String(b2) /\ b1.vars = b2.vars

Built(o) == pc = "built" /\ op = o

\* "(" x joiner y ")" rendered into one sink
Wrapped(x, joiner, y) ==
    WriteByte(Build(y, WriteString(Build(x, WriteByte(NewBuilder, "(")), joiner)), ")")

IsSingleOr(e) == e.kind = "OrExpr" /\ Len(e.Exprs) = 1

IsNilValued(v) == v \in NilValues

\* C3 as claimed: And(x) renders as x alone, And(x, y) renders "(x AND y)".
C3_AndAsClaimed ==
    Built("Build") /\ expr.kind = "AndExpr" =>
        /\ Len(expr.Exprs) = 1 => SameRender(builder, Build(expr.Exprs[1], NewBuilder))
        /\ Len(expr.Exprs) = 2 =>
               SameRender(builder, Wrapped(expr.Exprs[1], " AND ", expr.Exprs[2]))

\* C3 amended: And(x) renders as x alone; And(x, y) renders "(x AND y)",
\* except that the joiner is " OR " when y is an OrExpr with exactly one child.
C3_AndRender ==
    Built("Build") /\ expr.kind = "AndExpr" =>
        /\ Len(expr.Exprs) = 1 => SameRender(builder, Build(expr.Exprs[1], NewBuilder))
        /\ Len(expr.Exprs) = 2 =>
               SameRender(builder,
                          Wrapped(expr.Exprs[1],
                                  IF IsSingleOr(expr.Exprs[2]) THEN " OR " ELSE " AND ",
                                  expr.Exprs[2]))

C3_Witness ==
    /\ Built("Build") /\ expr.kind = "AndExpr" /\ Len(expr.Exprs) = 2
    /\ IsSingleOr(expr.Exprs[2])
    /\ builder.buf[1] = "(" /\ Len(builder.vars) = 2

\* C4: Or(x) renders as x alone, Or(x, y) renders "(x OR y)".
C4_OrRender ==
    Built("Build") /\ expr.kind = "OrExpr" =>
        /\ Len(expr.Exprs) = 1 => SameRender(builder, Build(expr.Exprs[1], NewBuilder))
        /\ Len(expr.Exprs) = 2 =>
               SameRender(builder, Wrapped(expr.Exprs[1], " OR ", expr.Exprs[2]))

C4_Witness ==
    /\ Built("Build") /\ expr.kind = "OrExpr" /\ Len(expr.Exprs) = 2
    /\ expr.Exprs[2].kind = "AndExpr"
    /\ builder.buf[1] = "(" /\ Len(builder.vars) >= 2

\* the NOT keywords that the children rendered by their normal Build write
RECURSIVE NotKeywordsOfPlainChildren(_)
NotKeywordsOfPlainChildren(exprs) ==
    IF exprs = <<>> THEN 0
    ELSE (IF IsNegationExpressionBuilder(Head(exprs)) THEN 0
          ELSE Count(Build(Head(exprs), NewBuilder).buf, "NOT "))
         + NotKeywordsOfPlainChildren(Tail(exprs))

NoChildNegates(e) ==
    \A i \in 1..Len(e.Exprs) : ~IsNegationExpressionBuilder(e.Exprs[i])

\* C5: a NotExpr writes the keyword "NOT " (first, and once) iff none of its
\* children has a NegationBuild, and otherwise writes no "NOT " of its own;
\* Not(Eq{c,v}) renders "c <> $1" and Not(Or(a,b)) renders "NOT (a OR b)".
C5_NotStrategy ==
    Built("Build") /\ expr.kind = "NotExpr" =>
        /\ builder.buf[1] = "NOT " <=> NoChildNegates(expr)
        /\ Count(builder.buf, "NOT ")
             = (IF NoChildNegates(expr) THEN 1 ELSE 0)
               + NotKeywordsOfPlainChildren(expr.Exprs)
        /\ \A c \in Columns, v \in Scalars :
              expr = NotExpr(<<Eq(c, v)>>) =>
                  String(builder) = Quoted(c) \o " <> $1" /\ builder.vars = <<v>>
        /\ \A x, y \in TinyLeaves :
              expr = NotExpr(<<OrExpr(<<x, y>>)>>) =>
                  /\ String(builder) = "NOT " \o String(Wrapped(x, " OR ", y))
                  /\ builder.vars = Wrapped(x, " OR ", y).vars

C5_Witness ==
    /\ Built("Build") /\ expr.kind = "NotExpr" /\ Len(expr.Exprs) = 2
    /\ IsNegationExpressionBuilder(expr.Exprs[1])
    /\ expr.Exprs[2].kind = "NotExpr"
    /\ builder.buf[1] = "("
    /\ Count(builder.buf, "NOT ") = 1

InverseKind(k) ==
    CASE k = "Gt" -> "Lte" [] k = "Gte" -> "Lt" [] k = "Lt" -> "Gte"
      [] k = "Lte" -> "Gt" [] k = "Eq" -> "Neq" [] k = "Neq" -> "Eq"

InverseOp(k) ==
    CASE k = "Gt" -> " <= " [] k = "Gte" -> " < " [] k = "Lt" -> " >= "
      [] k = "Lte" -> " > "

Inverse(e) == [e EXCEPT !.kind = InverseKind(e.kind)]

ComparisonKinds == {"Eq", "Neq", "Gt", "Gte", "Lt", "Lte"}

\* C6: the negated render of a comparison leaf is the normal render of its
\* inverse (Gt/Lte, Gte/Lt, Eq/Neq), text and parameters, so that negating
\* twice gives the original render.
C6_Inversion ==
    Built("NegationBuild") /\ expr.kind \in ComparisonKinds =>
        /\ SameRender(builder, Build(Inverse(expr), NewBuilder))
        /\ expr.kind \notin {"Eq", "Neq"} =>
               /\ String(builder) = Quoted(expr.Column) \o InverseOp(expr.kind) \o "$1"
               /\ builder.vars = <<expr.Value>>
        /\ SameRender(NegationBuild(Inverse(expr), NewBuilder), Build(expr, NewBuilder))

C6_Witness ==
    /\ Built("NegationBuild") /\ expr.kind = "Gte"
    /\ String(builder) = Quoted("a") \o " < $1"

\* C7: Eq with a nil Value (a nil-valued pointer included) renders
\* "c IS NULL", Neq renders "c IS NOT NULL", with no parameter.
C7_NullRender ==
    Built("Build") /\ expr.kind \in {"Eq", "Neq"} /\ expr.Value \in {Nil, NilPtr} =>
        /\ String(builder)
             = Quoted(expr.Column)
               \o (IF expr.kind = "Eq" THEN " IS NULL" ELSE " IS NOT NULL")
        /\ builder.vars = <<>>

C7_Witness ==
    /\ Built("Build") /\ expr.kind = "Neq" /\ expr.Value = NilPtr
    /\ Len(builder.buf) = 2

IsSingleIN(e) == e.kind = "IN" /\ Len(e.Values) = 1

\* C8 as claimed: IN{c, [v]} with a non-list v renders as Eq{c, v}, and its
\* negated render as Neq{c, v}.
C8_SingleINAsClaimed ==
    pc = "built" /\ IsSingleIN(expr) /\ expr.Values[1].t \notin ListTypes =>
        /\ op = "Build" =>
               SameRender(builder, Build(Eq(expr.Column, expr.Values[1]), NewBuilder))
        /\ op = "NegationBuild" =>
               SameRender(builder, Build(Neq(expr.Column, expr.Values[1]), NewBuilder))

\* C8 amended: IN{c, [v]} with a non-list v that is not nil renders as
\* Eq{c, v}, and its negated render as Neq{c, v}.
C8_SingleIN ==
    pc = "built" /\ IsSingleIN(expr) /\ expr.Values[1].t \notin ListTypes
        /\ ~IsNilValued(expr.Values[1]) =>
        /\ op = "Build" =>
               SameRender(builder, Build(Eq(expr.Column, expr.Values[1]), NewBuilder))
        /\ op = "NegationBuild" =>
               SameRender(builder, Build(Neq(expr.Column, expr.Values[1]), NewBuilder))

C8_Witness ==
    /\ Built("NegationBuild") /\ IsSingleIN(expr) /\ expr.Values[1] = GoInt(2)
    /\ builder.vars = <<GoInt(2)>>

\* C9: IN with no Values renders "c IN (NULL)", its negated render is
\* "c IS NOT NULL", and neither appends a parameter.
C9_EmptyIN ==
    pc = "built" /\ expr.kind = "IN" /\ Len(expr.Values) = 0 =>
        /\ op = "Build" => String(builder) = Quoted(expr.Column) \o " IN (NULL)"
        /\ op = "NegationBuild" => String(builder) = Quoted(expr.Column) \o " IS NOT NULL"
        /\ op \in {"Build", "NegationBuild"} => builder.vars = <<>>

C9_Witness ==
    /\ Built("NegationBuild") /\ expr.kind = "IN" /\ expr.Values = <<>>
    /\ Len(builder.buf) = 2

\* the values a tree hands to the sink, left to right
RECURSIVE LeafValues(_)
RECURSIVE LeafValuesOfList(_)
LeafValues(e) ==
    CASE e.kind \in {"Eq", "Neq"} ->
             IF e.Value.t \in ListTypes THEN e.Value.v
             ELSE IF IsNilValued(e.Value) THEN <<>>
             ELSE <<e.Value>>
      [] e.kind \in {"Gt", "Gte", "Lt", "Lte", "Like"} -> <<e.Value>>
      [] e.kind = "IN" -> e.Values
      [] e.kind \in GroupKinds -> LeafValuesOfList(e.Exprs)

LeafValuesOfList(es) ==
    IF es = <<>> THEN <<>> ELSE LeafValues(Head(es)) \o LeafValuesOfList(Tail(es))

PaginationValues(p) ==
    (IF p.Limit # <<>> /\ p.Limit[1] > 0 THEN <<GoInt(p.Limit[1])>> ELSE <<>>)
        \o (IF p.Offset > 0 THEN <<GoInt(p.Offset)>> ELSE <<>>)

\* the placeholders written, in text order
PlaceholdersOf(b) == SelectChunks(b.buf, {Placeholder(i) : i \in 1..Len(b.buf)})

\* C1: after a render the parameter list is the sequence of the leaf values
\* in render order (nothing else, so no column or table name), and the
\* placeholders of the text are $1..$n in order, one per parameter.
C1_Parameters ==
    pc = "built" =>
        /\ op \in {"Build", "NegationBuild"} => builder.vars = LeafValues(expr)
        /\ op = "Where.Build" => builder.vars = LeafValuesOfList(where)
        /\ op = "SelectQuery.Build" =>
               builder.vars = LeafValuesOfList(where) \o PaginationValues(pagination)
        /\ PlaceholdersOf(builder) = [i \in 1..Len(builder.vars) |-> Placeholder(i)]

C1_Witness ==
    /\ Built("SelectQuery.Build")
    /\ Len(where) = 2 /\ where[1].kind = "Eq" /\ where[1].Value = Nil
    /\ where[2].kind = "IN" /\ Len(where[2].Values) = 2
    /\ pagination.Limit = <<2>> /\ pagination.Offset = 3
    /\ Len(builder.vars) = 4
    /\ PlaceholdersOf(builder) = <<"$1", "$2", "$3", "$4">>

\* the chunks between an opening and a closing parenthesis
Inside(chunks) == SubSeq(chunks, 2, Len(chunks) - 1)

IsLoneAnd(w) == Len(w) = 1 /\ w[1].kind = "AndExpr"

SelectHead ==
    WriteQuoted(WriteString(WriteQuoted(WriteString(NewBuilder, "SELECT "), Fields[1]),
                            " FROM "), Table)

\* the list Where.Build joins
Siblings(w) == IF IsLoneAnd(w) THEN w[1].Exprs ELSE w

\* the render of the first n siblings of a flat list
Upto(list, n, default) == buildExprs(SubSeq(list, 1, n), NewBuilder, default)

\* the chunk written between sibling i-1 and sibling i of a flat list
JoinerBefore(list, i, default) ==
    buildExprs(list, NewBuilder, default).buf[Len(Upto(list, i - 1, default).buf) + 1]

\* sibling i is reached: no panic has unwound the render before it
Reached(list, i, default) == ~Upto(list, i - 1, default).panicked

\* the joiner before every reached sibling but the first is OR for an OrExpr
\* with one child and the default joiner otherwise
FlatListRule(list, default) ==
    \A i \in 2..Len(list) :
        Reached(list, i, default) =>
            JoinerBefore(list, i, default)
                = IF IsSingleOr(list[i]) THEN " OR " ELSE default

\* the text of the built query is the head, " WHERE " and the joined siblings
BuiltFromSiblings ==
    where # <<>> =>
        builder.buf
            = SelectHead.buf \o <<" WHERE ">>
              \o buildExprs(Siblings(where), NewBuilder, " AND ").buf

SiblingRule ==
    /\ BuiltFromSiblings
    /\ FlatListRule(Siblings(where), " AND ")
    /\ \A k \in 1..Len(where) :
          where[k].kind = "AndExpr" =>
              /\ FlatListRule(where[k].Exprs, " AND ")
              /\ Len(where[k].Exprs) > 1 =>
                     Inside(Build(where[k], NewBuilder).buf)
                         = buildExprs(where[k].Exprs, NewBuilder, " AND ").buf

\* C2 as claimed: in a flat sibling list the joiner before a sibling is OR
\* for an OrExpr with one child and the default otherwise; so each condition
\* added by OrWhere with one expression is preceded by OR and every other
\* condition by AND.
C2_JoinersAsClaimed ==
    pc \in {"built", "panicked"} /\ op = "Select.Build" =>
        /\ SiblingRule
        /\ \A i \in 2..Len(where) :
              Reached(where, i, " AND ") =>
                  JoinerBefore(where, i, " AND ")
                      = IF origin[i] = "OrWhere1" THEN " OR " ELSE " AND "

\* C2 amended: as claimed, except that a condition not added by OrWhere is
\* preceded by AND only if it is not itself an OrExpr with one child (as it
\* is when Where is given clause.Or(x)); such a condition is preceded by OR.
C2_Joiners ==
    pc \in {"built", "panicked"} /\ op = "Select.Build" =>
        /\ SiblingRule
        /\ \A i \in 2..Len(where) :
              Reached(where, i, " AND ") =>
                  /\ origin[i] = "OrWhere1" => JoinerBefore(where, i, " AND ") = " OR "
                  /\ origin[i] # "OrWhere1" /\ ~IsSingleOr(where[i]) =>
                         JoinerBefore(where, i, " AND ") = " AND "
                  /\ origin[i] # "OrWhere1" /\ IsSingleOr(where[i]) =>
                         JoinerBefore(where, i, " AND ") = " OR "

C2_Witness ==
    /\ pc = "built" /\ op = "Select.Build"
    /\ Len(where) = 2
    /\ origin = <<"Where", "OrWhere1">>
    /\ where[1].kind = "AndExpr" /\ Len(where[1].Exprs) = 2
    /\ IsSingleOr(where[1].Exprs[2])
    /\ String(builder) = "SELECT 'id' FROM 'users' WHERE ('a' = $1 OR 'b' = $2) OR 'a' = $3"

(***************************************************************************)
(* SpecOwn: a Query and the SelectQuery made from it, each with its own    *)
(* clause.Where over the shared memory; Merge and the fluent calls on      *)
(* either, and Build of either.  origin[o] is history: everything handed   *)
(* to Merge on the Where of owner o (or on the Where it was copied from),  *)
(* in call order.                                                          *)
(***************************************************************************)
MaxOwn == 3

\* lists given to Merge: none, a lone AndExpr (which Build unwraps), and two
\* entries at once
OwnArgs ==
    {<<>>, <<AndExpr(<<Eq("a", One), Eq("b", Two)>>)>>,
     <<OrExpr(<<Eq("a", One)>>), NotExpr(<<Eq("a", One)>>)>>}

\* the fluent calls made: Where(clause.Or(a = 1)), OrWhere("a", 1), Not("a", 1)
OwnCalls ==
    {Call("Where", Expression(OrExpr(<<Eq("a", One)>>)), <<>>),
     Call("OrWhere", GoString("a"), <<One>>),
     Call("Not", GoString("a"), <<One>>)}

InitOwn ==
    /\ pc = "ready"
    /\ op = [m |-> "none", who |-> "q"]
    /\ expr = NilExpr
    /\ where = <<>>
    /\ origin = [o \in Owners |-> <<>>]
    /\ orderbys = <<[Column |-> "b", Desc |-> TRUE]>>
    /\ pagination = [Limit |-> <<2>>, Offset |-> 3]
    /\ Error = "nil"
    /\ builder = NewBuilder
    /\ mem = NewMem

\* w.Merge(clause.Where{Exprs: other}) on the Where of either owner
OwnMerge ==
    /\ pc = "ready"
    /\ \E who \in Owners, other \in OwnArgs :
          /\ Len(Elems(mem, who)) + Len(other) <= MaxOwn
          /\ mem' = MergeInto(mem, who, [Exprs |-> other])
          /\ origin' = [origin EXCEPT ![who] = @ \o other]
          /\ op' = [m |-> "Merge", who |-> who]
    /\ UNCHANGED <<pc, expr, where, orderbys, pagination, Error, builder>>

\* Where, OrWhere or Not called on either owner
OwnFluent ==
    /\ pc = "ready"
    /\ \E who \in Owners, c \in OwnCalls :
          LET r == buildCondition(c.column, c.args)
              arg == IF r.err # "nil" THEN <<>> ELSE whereArgument(c.m, r.exprs)
          IN /\ Len(Elems(mem, who)) + Len(arg) <= MaxOwn
             /\ mem' = where_Call(mem, who, c.m, c.column, c.args)
             /\ origin' = [origin EXCEPT ![who] = @ \o arg]
             /\ Error' = IF r.err # "nil" THEN r.err ELSE Error
             /\ op' = [m |-> c.m, who |-> who]
    /\ UNCHANGED <<pc, expr, where, orderbys, pagination, builder>>

\* sq := q.Select(fields...)
OwnSelect ==
    /\ pc = "ready"
    /\ mem' = Query_Select(mem)
    /\ origin' = [origin EXCEPT !["sq"] = origin["q"]]
    /\ op' = [m |-> "Select", who |-> "sq"]
    /\ UNCHANGED <<pc, expr, where, orderbys, pagination, Error, builder>>

\* the query built over the Where of owner who, into a fresh sink
RenderOf(m, who, o, p) ==
    SelectQuery_Build([table |-> Table, fields |-> Fields,
                       where |-> [Exprs |-> Elems(m, who)],
                       orderbys |-> o, pagination |-> p], NewBuilder)

\* Build of either owner into a fresh sink, any number of times
OwnBuild ==
    /\ \E who \in Owners :
          /\ builder' = RenderOf(mem, who, orderbys, pagination)
          /\ mem' = Where_Build_Memory(mem, who)
          /\ op' = [m |-> "Build", who |-> who]
    /\ pc' = IF pc = "ready" THEN "built" ELSE "rebuilt"
    /\ UNCHANGED <<expr, where, origin, orderbys, pagination, Error>>

NextOwn == OwnMerge \/ OwnFluent \/ OwnSelect \/ OwnBuild

SpecOwn == InitOwn /\ [][NextOwn]_vars

\* C11: the list of a Where is everything that was merged into it, in call
\* order, by Merge and by the fluent calls: nothing is lost, reordered,
\* deduplicated or simplified, and merging an empty list changes nothing.
C11_MergeAppends ==
    \A o \in Owners : Elems(mem, o) = origin[o]

C11_Witness ==
    /\ op.m = "Not" /\ op.who = "q"
    /\ Len(Elems(mem, "q")) = 3
    /\ Elems(mem, "q")[1] = Elems(mem, "q")[2]
    /\ Elems(mem, "q")[3].kind = "NotExpr"
    /\ Elems(mem, "q") = origin["q"]

Mutators == {"Merge", "Where", "OrWhere", "Not"}

\* C12: a Merge, Where, OrWhere or Not on one copy of a Where never changes
\* the list the other copy holds, nor what the other copy renders.
C12_Ownership ==
    [][\A who \in Owners :
          op'.m \in Mutators /\ op'.who = who =>
              /\ Elems(mem', Other(who)) = Elems(mem, Other(who))
              /\ RenderOf(mem', Other(who), orderbys', pagination')
                     = RenderOf(mem, Other(who), orderbys, pagination)]_vars

\* both copies grew after the copy was made
C12_Witness ==
    /\ op.m \in Mutators
    /\ Len(Elems(mem, "sq")) >= 2
    /\ Len(Elems(mem, "q")) = Len(Elems(mem, "sq"))
    /\ Elems(mem, "q")[1] = Elems(mem, "sq")[1]
    /\ Elems(mem, "q") # Elems(mem, "sq")

RECURSIVE HasBadLike(_)
\* some Like in the tree has a Value that is not a string
HasBadLike(e) ==
    CASE e.kind = "Like" -> e.Value.t # "string"
      [] e.kind \in GroupKinds -> \E i \in 1..Len(e.Exprs) : HasBadLike(e.Exprs[i])
      [] OTHER -> FALSE

RECURSIVE LeafCount(_)
LeafCount(e) ==
    IF e.kind \in GroupKinds
    THEN Len(Flatten([i \in 1..Len(e.Exprs) |-> [j \in 1..LeafCount(e.Exprs[i]) |-> j]]))
    ELSE 1

\* the column names written, in text order
ColumnsWritten(b) == SelectChunks(b.buf, {Quoted(c) : c \in Columns})

\* C13: rendering a tree that holds a Like whose Value is not a string does
\* not panic, reports an error through AddError, and still renders every
\* sibling node.
C13_LikeReportsError ==
    Built("Build") /\ HasBadLike(expr) =>
        /\ ~builder.panicked
        /\ builder.errors # <<>>
        /\ Len(ColumnsWritten(builder)) = LeafCount(expr)

(***************************************************************************)
(* SpecErr: fluent calls on one Query with well-formed and malformed       *)
(* arguments.  op is the call made last, with its arguments.               *)
(***************************************************************************)
MaxOrderBys == 2   \* entries of the query's ORDER BY list

\* (field, args) given to Where, OrWhere and Not: a condition, an unsupported
\* operator, an operator that is no string, an unrecognized condition
ErrInputs ==
    {Input(GoString("a"), <<One>>),
     Input(GoString("a"), <<GoString("<>"), One>>),
     Input(GoString("a"), <<One, One>>),
     Input(One, <<>>)}

\* (field, orders) given to OrderBy: a column, and two unsupported types
ErrOrders ==
    {Input(Chars(<<"a">>), <<>>), Input(One, <<>>), Input(Nil, <<GoString("desc")>>)}

InitErr ==
    /\ pc = "ready"
    /\ op = [m |-> "none", field |-> Nil, args |-> <<>>]
    /\ expr = NilExpr
    /\ where = <<>>
    /\ origin = <<>>
    /\ orderbys = <<>>
    /\ pagination = NoPagination
    /\ Error = "nil"
    /\ builder = NewBuilder
    /\ mem = NewMem

\* the query after a call of Where, OrWhere or Not
ErrFluent(q, m, in) ==
    /\ Len(q.Value.Exprs) <= MaxWhere
    /\ where' = q.Value.Exprs
    /\ Error' = q.Error
    /\ op' = [m |-> m, field |-> in.column, args |-> in.args]
    /\ UNCHANGED <<pc, expr, origin, orderbys, pagination, builder, mem>>

ErrWhere == \E in \in ErrInputs : ErrFluent(where_Where(Query, in.column, in.args), "Where", in)

ErrOrWhere ==
    \E in \in ErrInputs : ErrFluent(where_OrWhere(Query, in.column, in.args), "OrWhere", in)

ErrNot == \E in \in ErrInputs : ErrFluent(where_Not(Query, in.column, in.args), "Not", in)

ErrOrderBy ==
    \E in \in ErrOrders :
        LET o == orderbys_OrderBy([Value |-> orderbys, Error |-> Error], in.column, in.args)
        IN /\ Len(o.Value) <= MaxOrderBys
           /\ orderbys' = o.Value
           /\ Error' = o.Error
           /\ op' = [m |-> "OrderBy", field |-> in.column, args |-> in.args]
           /\ UNCHANGED <<pc, expr, where, origin, pagination, builder, mem>>

NextErr == ErrWhere \/ ErrOrWhere \/ ErrNot \/ ErrOrderBy

SpecErr == InitErr /\ [][NextErr]_vars

SupportedOperators == {"=", "!=", ">", ">=", "<", "<=", "LIKE", "IN"}

\* the error a malformed call is to record, "nil" for a well-formed call
ErrorOf(call) ==
    IF call.m = "OrderBy"
    THEN IF call.field.t \in {"string", "clause.OrderBy", "[]clause.OrderBy", "clause.OrderBys"}
         THEN "nil" ELSE ErrInvalidOrderBy
    ELSE IF call.field.t = "string"
         THEN IF Len(call.args) >= 2
                 /\ (call.args[1].t # "string" \/ call.args[1].v \notin SupportedOperators)
              THEN ErrInvalidOperator ELSE "nil"
    ELSE IF call.field.t \in {"func", "clause.Where", "Expression", "[]clause.Expression"}
         THEN "nil" ELSE ErrInvalidCondition

C15_FirstErrorWins ==
    [][Error # "nil" => Error' = Error]_vars

\* C16: no fluent call, whatever the shape and type of its arguments, and no
\* Build of the resulting query panics (Spec).
C16_NoPanic ==
    pc # "panicked" /\ ~builder.panicked

(***************************************************************************)
(* SpecOrder: OrderBy, Limit and Offset called on one Query, then          *)
(* Select().Build.  op is the call made last, with its arguments; origin   *)
(* is history: the entries the OrderBy calls were to add, in call order.   *)
(***************************************************************************)
AscA == [Column |-> "a", Desc |-> FALSE]

DescB == [Column |-> "b", Desc |-> TRUE]

\* (field, orders) given to OrderBy
OrderInputs ==
    {Input(Chars(<<"a">>), <<>>),
     Input(Chars(<<"a">>), <<Chars(<<"D", "E", "S", "C">>)>>),
     Input(Chars(<<"b">>), <<Chars(<<"u", "p">>)>>),
     Input(Chars(<<"a">>), <<One>>),
     Input(Chars(<<"b", " ", "d", "e", "s", "c", ",", "a">>), <<>>),
     Input(Chars(<<" ", "a", " ", ",", ",", " ", "b", " ", "D", "e", "s", "c", " ">>), <<>>),
     Input(Chars(<<"a", " ", "a", "s", "c", ",", "b", " ", "u", "p">>), <<>>),
     Input(Chars(<<"a", " ", " ", "d", "e", "s", "c">>), <<>>),
     Input(Chars(<<>>), <<>>),
     Input(ClauseOrderBy(DescB), <<>>),
     Input(ClauseOrderBy(DescB), <<ClauseOrderBy(AscA), One>>),
     Input(OrderBySlice(<<AscA, DescB>>), <<>>),
     Input(ClauseOrderBys(<<DescB>>), <<>>),
     Input(One, <<>>)}

\* the arguments of Limit and Offset
PageInts == {-1, 0, 2}

InitOrder ==
    /\ pc = "ready"
    /\ op = [m |-> "none", field |-> Nil, args |-> <<>>]
    /\ expr = NilExpr
    /\ where = <<>>
    /\ origin = <<>>
    /\ orderbys = <<>>
    /\ pagination = NoPagination
    /\ Error = "nil"
    /\ builder = NewBuilder
    /\ mem = NewMem

\* the entries a call of OrderBy is to add: the clause.OrderBy values it is
\* given, or what buildOrderBy makes of its strings
Added(field, orders) ==
    CASE field.t = "string" ->
             IF Len(orders) > 0 /\ orders[1].t = "string"
             THEN buildOrderBy(field.v, <<orders[1].v>>)
             ELSE buildOrderBy(field.v, <<>>)
      [] field.t = "clause.OrderBy" -> <<field.v>> \o onlyOrderBy(orders)
      [] field.t \in {"[]clause.OrderBy", "clause.OrderBys"} -> field.v
      [] OTHER -> <<>>

\* q.OrderBy(field, orders...)
OrdOrderBy ==
    /\ pc = "ready"
    /\ \E in \in OrderInputs :
          LET o == orderbys_OrderBy([Value |-> orderbys, Error |-> Error],
                                    in.column, in.args)
          IN /\ Len(o.Value) <= MaxOrderBys
             /\ orderbys' = o.Value
             /\ Error' = o.Error
             /\ origin' = origin \o Added(in.column, in.args)
             /\ op' = [m |-> "OrderBy", field |-> in.column, args |-> in.args]
    /\ UNCHANGED <<pc, expr, where, pagination, builder, mem>>

\* q.Limit(limit)
OrdLimit ==
    /\ pc = "ready"
    /\ \E limit \in PageInts :
          /\ pagination' = pagination_Limit(pagination, limit)
          /\ op' = [m |-> "Limit", field |-> GoInt(limit), args |-> <<>>]
    /\ UNCHANGED <<pc, expr, where, origin, orderbys, Error, builder, mem>>

\* q.Offset(offset)
OrdOffset ==
    /\ pc = "ready"
    /\ \E offset \in PageInts :
          /\ pagination' = pagination_Offset(pagination, offset)
          /\ op' = [m |-> "Offset", field |-> GoInt(offset), args |-> <<>>]
    /\ UNCHANGED <<pc, expr, where, origin, orderbys, Error, builder, mem>>

\* the arguments of Paginate: pages and page sizes
Pages == {-1, 0, 1, 3}

LargePageSize == 1073741824

PageSizes == {-1, 0, 2, LargePageSize}

\* q.Paginate(page, pageSize)
OrdPaginate ==
    /\ pc = "ready"
    /\ \E page \in Pages, pageSize \in PageSizes :
          /\ pagination' = pagination_Paginate(pagination, page, pageSize)
          /\ op' = [m |-> "Paginate", field |-> GoInt(page),
                    args |-> <<GoInt(pageSize)>>]
    /\ UNCHANGED <<pc, expr, where, origin, orderbys, Error, builder, mem>>

\* q.Select(fields...).Build(builder)
OrdSelectBuild ==
    /\ pc = "ready"
    /\ builder' = SelectQuery_Build(
           [table |-> Table, fields |-> Fields, where |-> [Exprs |-> where],
            orderbys |-> orderbys, pagination |-> pagination], builder)
    /\ pc' = "built"
    /\ op' = [m |-> "Select.Build", field |-> Nil, args |-> <<>>]
    /\ UNCHANGED <<expr, where, origin, orderbys, pagination, Error, mem>>

NextOrder ==
    OrdOrderBy \/ OrdLimit \/ OrdOffset \/ OrdPaginate \/ OrdSelectBuild

SpecOrder == InitOrder /\ [][NextOrder]_vars

\* the text before the clauses of the built query
HeadText == "SELECT 'id' FROM 'users'"

LimitWritten(p) == p.Limit # <<>> /\ p.Limit[1] > 0

OffsetWritten(p) == p.Offset > 0

\* the LIMIT / OFFSET text the claim describes, for placeholders from $1
PageText(p) ==
    (IF LimitWritten(p) THEN " LIMIT $1" ELSE "")
        \o (IF OffsetWritten(p)
            THEN (IF LimitWritten(p) THEN " OFFSET $2" ELSE " OFFSET $1")
            ELSE "")

PageVars(p) ==
    (IF LimitWritten(p) THEN <<GoInt(p.Limit[1])>> ELSE <<>>)
        \o (IF OffsetWritten(p) THEN <<GoInt(p.Offset)>> ELSE <<>>)

\* C18: Pagination.Build writes " LIMIT <param>" iff Limit is set and above
\* zero and " OFFSET <param>" iff Offset is above zero, each independently,
\* LIMIT first; a half that is unset, zero or negative writes nothing and
\* registers no parameter; the parameters are limit, then offset.
C18_Pagination ==
    pc = "built" =>
        /\ String(builder)
               = HeadText \o String(OrderBys_Build(orderbys, NewBuilder))
                     \o PageText(pagination)
        /\ builder.vars = PageVars(pagination)

\* a negative Limit beside a written Offset
C18_Witness ==
    /\ pc = "built"
    /\ pagination = [Limit |-> <<-1>>, Offset |-> 2]
    /\ String(builder) = "SELECT 'id' FROM 'users' OFFSET $1"
    /\ builder.vars = <<GoInt(2)>>

RECURSIVE OrderText(_, _)
\* the entries from the i-th on as the claim describes them
OrderText(entries, i) ==
    IF i > Len(entries) THEN ""
    ELSE (IF i > 1 THEN ", " ELSE "")
             \o Quoted(entries[i].Column)
             \o (IF entries[i].Desc THEN " DESC" ELSE " ASC")
             \o OrderText(entries, i + 1)

\* C19: after any sequence of OrderBy calls in any mix of forms, the clause
\* rendered is " ORDER BY " and every added entry in call order, each as its
\* quoted column and " ASC" or " DESC", joined by ", "; nothing is written
\* when there is no entry.
C19_OrderByRender ==
    /\ orderbys = origin
    /\ pc = "built" =>
           String(builder)
               = HeadText
                     \o (IF origin = <<>> THEN "" ELSE " ORDER BY " \o OrderText(origin, 1))
                     \o String(Pagination_Build(pagination, NewBuilder))

\* entries added by a string with a direction and by a clause.OrderBys
C19_Witness ==
    /\ pc = "built"
    /\ origin = <<[Column |-> "a", Desc |-> TRUE], DescB>>
    /\ String(builder) = "SELECT 'id' FROM 'users' ORDER BY 'a' DESC, 'b' DESC"

RECURSIVE TokensFrom(_, _)
\* the words of s after the word cur, which is being read
TokensFrom(s, cur) ==
    IF s = <<>> THEN (IF cur = <<>> THEN <<>> ELSE <<cur>>)
    ELSE IF IsSpace(Head(s))
         THEN (IF cur = <<>> THEN <<>> ELSE <<cur>>) \o TokensFrom(Tail(s), <<>>)
    ELSE TokensFrom(Tail(s), Append(cur, Head(s)))

\* the words of a fragment: its column and, if any, its direction keyword
Tokens(s) == TokensFrom(s, <<>>)

IsDescKeyword(word) == ToLower(word) = Desc

RECURSIVE FragmentOrders(_, _)
\* the entries of the fragments from the i-th on, as the claim describes them
FragmentOrders(fragments, i) ==
    IF i > Len(fragments) THEN <<>>
    ELSE LET words == Tokens(fragments[i])
         IN (IF words = <<>> THEN <<>>
             ELSE <<[Column |-> Concat(words[1]),
                     Desc |-> Len(words) > 1 /\ IsDescKeyword(words[2])]>>)
            \o FragmentOrders(fragments, i + 1)

\* the entries a string-form call is to add
StringOrders(call) ==
    IF Len(call.args) > 0 /\ call.args[1].t = "string"
    THEN <<[Column |-> Concat(call.field.v), Desc |-> IsDescKeyword(call.args[1].v)]>>
    ELSE FragmentOrders(Split(call.field.v, ","), 1)

\* C20: a single string is split at commas into "column [asc|desc]"
\* fragments, each trimmed, empty ones skipped; a fragment is descending iff
\* its direction keyword is "desc" in any case, ascending when the direction
\* is omitted or unrecognized; the form (column, direction) follows the same
\* direction rule.
C20_OrderParsing ==
    [][op'.m = "OrderBy" /\ op'.field.t = "string" =>
          orderbys' = orderbys \o StringOrders(op')]_vars

\* x is the product a * b of the integers, for b above zero
IsProduct(x, a, b) == b > 0 /\ x % b = 0 /\ x \div b = a

\* the page and the page size of the Paginate call made last
PageOf(call) == call.field.v

PageSizeOf(call) == call.args[1].v

\* C21: for page >= 1 and pageSize >= 1, Paginate(page, pageSize) sets Limit
\* to pageSize and Offset to (page-1)*pageSize, so the query renders
\* LIMIT pageSize and, for page > 1, OFFSET (page-1)*pageSize; a page <= 0
\* leaves Offset as it was and a pageSize <= 0 leaves Limit as it was.
C21_Paginate ==
    [][op'.m = "Paginate" =>
          LET page == PageOf(op')
              pageSize == PageSizeOf(op')
              b == Pagination_Build(pagination', NewBuilder)
          IN /\ (page >= 1 /\ pageSize >= 1) =>
                    /\ pagination'.Limit = <<pageSize>>
                    /\ IsProduct(pagination'.Offset, page - 1, pageSize)
                    /\ String(b) = IF page > 1 THEN " LIMIT $1 OFFSET $2"
                                               ELSE " LIMIT $1"
                    /\ b.vars = IF page > 1
                                THEN <<GoInt(pageSize),
                                       GoInt(pagination'.Offset)>>
                                ELSE <<GoInt(pageSize)>>
             /\ page <= 0 => pagination'.Offset = pagination.Offset
             /\ pageSize <= 0 => pagination'.Limit = pagination.Limit]_vars

\* C22: Where(column, "<>", value) adds the not-equal condition that
\* Where(column, "!=", value) adds, and records no error (SpecErr).
C22_NotEqualOperator ==
    [][(/\ op'.m = "Where" /\ op'.field.t = "string" /\ Len(op'.args) = 2
        /\ op'.args[1].t = "string" /\ op'.args[1].v = "<>") =>
          LET q == where_Where(Query, op'.field,
                               <<GoString("!="), op'.args[2]>>)
          IN /\ where' = q.Value.Exprs
             /\ where' = Append(where, Neq(op'.field.v, op'.args[2]))
             /\ Error' = Error]_vars

(***************************************************************************)
(* The meaning of a rendered condition.  A row gives each column an        *)
(* integer; the text is read with the precedence of SQL: a comparison      *)
(* binds tighter than NOT, NOT tighter than AND, AND tighter than OR.      *)
(***************************************************************************)
RowValues == {1, 2, 3}

Rows == [Columns -> RowValues]

\* the comparison x <op> y, op as it is written in the text
Compare(x, sign, y) ==
    CASE sign = " = " -> x = y
      [] sign = " <> " -> x # y
      [] sign = " > " -> x > y
      [] sign = " >= " -> x >= y
      [] sign = " < " -> x < y
      [] sign = " <= " -> x <= y

ColumnOf(chunk) == CHOOSE c \in Columns : Quoted(c) = chunk

ParamOf(chunk, params) ==
    params[CHOOSE n \in 1..Len(params) : Placeholder(n) = chunk].v

\* each reader returns the truth of what it read and the position after it
RECURSIVE ReadFactor(_, _, _, _), ReadAnd(_, _, _, _), ReadOr(_, _, _, _)
ReadFactor(buf, params, row, i) ==
    IF buf[i] = "NOT "
    THEN LET r == ReadFactor(buf, params, row, i + 1)
         IN [v |-> ~r.v, i |-> r.i]
    ELSE IF buf[i] = "("
         THEN LET r == ReadOr(buf, params, row, i + 1)
              IN [v |-> r.v, i |-> r.i + 1]
         ELSE [v |-> Compare(row[ColumnOf(buf[i])], buf[i + 1],
                              ParamOf(buf[i + 2], params)),
               i |-> i + 3]

ReadAnd(buf, params, row, i) ==
    LET f == ReadFactor(buf, params, row, i)
    IN IF f.i <= Len(buf) /\ buf[f.i] = " AND "
       THEN LET r == ReadAnd(buf, params, row, f.i + 1)
            IN [v |-> f.v /\ r.v, i |-> r.i]
       ELSE f

ReadOr(buf, params, row, i) ==
    LET t == ReadAnd(buf, params, row, i)
    IN IF t.i <= Len(buf) /\ buf[t.i] = " OR "
       THEN LET r == ReadOr(buf, params, row, t.i + 1)
            IN [v |-> t.v \/ r.v, i |-> r.i]
       ELSE t

\* the condition written to b holds on row
TextHolds(b, row) == ReadOr(b.buf, b.vars, row, 1).v

\* the condition a tree stands for: AND and OR of the children, NOT of the
\* conjunction of the children
RECURSIVE Truth(_, _)
Truth(e, row) ==
    CASE e.kind = "AndExpr" -> \A i \in 1..Len(e.Exprs) : Truth(e.Exprs[i], row)
      [] e.kind = "OrExpr" -> \E i \in 1..Len(e.Exprs) : Truth(e.Exprs[i], row)
      [] e.kind = "NotExpr" -> ~(\A i \in 1..Len(e.Exprs) : Truth(e.Exprs[i], row))
      [] e.kind = "Eq" -> row[e.Column] = e.Value.v
      [] e.kind = "Neq" -> row[e.Column] # e.Value.v
      [] e.kind = "Gt" -> row[e.Column] > e.Value.v
      [] e.kind = "Gte" -> row[e.Column] >= e.Value.v
      [] e.kind = "Lt" -> row[e.Column] < e.Value.v
      [] e.kind = "Lte" -> row[e.Column] <= e.Value.v

\* every leaf of e compares a column with an integer
RECURSIVE IntComparisons(_)
IntComparisons(e) ==
    IF e.kind \in GroupKinds
    THEN \A i \in 1..Len(e.Exprs) : IntComparisons(e.Exprs[i])
    ELSE e.kind \in ComparisonKinds /\ e.Value.t = "int"

\* C23: a NotExpr negates its children as a group: on every row, the
\* condition rendered for Not(x1, ..., xn) is true exactly when the
\* conjunction x1 AND ... AND xn is false, on either render path
\* (SpecRender, trees whose leaves compare with integers).
C23_NotNegatesGroup ==
    (pc = "built" /\ op = "Build" /\ expr.kind = "NotExpr" /\ IntComparisons(expr)) =>
        \A row \in Rows :
            TextHolds(builder, row)
                = ~(\A i \in 1..Len(expr.Exprs) : Truth(expr.Exprs[i], row))

\* the children rendered in order into one sink, joined with " AND ": a
\* child with a NegationBuild by it, any other child by its Build
RECURSIVE JoinedNegated(_, _, _)
JoinedNegated(exprs, b, first) ==
    IF exprs = <<>> THEN b
    ELSE LET c == Head(exprs)
             b1 == IF first THEN b ELSE WriteString(b, " AND ")
         IN JoinedNegated(Tail(exprs),
                          IF IsNegationExpressionBuilder(c)
                          THEN NegationBuild(c, b1)
                          ELSE Build(c, b1),
                          FALSE)

\* parentheses around the group only when it has more than one child
ClaimedNegation(exprs) ==
    IF Len(exprs) > 1
    THEN WriteByte(JoinedNegated(exprs, WriteByte(NewBuilder, "("), TRUE), ")")
    ELSE JoinedNegated(exprs, NewBuilder, TRUE)

\* C24: a NotExpr with some child that has a NegationBuild renders every
\* such child through its NegationBuild and every other child through its
\* Build, joined with " AND ", in parentheses only when there is more than
\* one child; Not(And(a, b)) renders as Not(a, b) does (SpecRender).
C24_SelfNegatingPath ==
    /\ (Built("Build") /\ expr.kind = "NotExpr" /\ ~NoChildNegates(expr)) =>
           SameRender(builder, ClaimedNegation(expr.Exprs))
    /\ (/\ Built("Not.Build") /\ Len(where) = 1
        /\ where[1].kind = "AndExpr" /\ Len(where[1].Exprs) > 1) =>
           /\ SameRender(builder, Build(NotExpr(where[1].Exprs), NewBuilder))
           /\ anyNegationBuilder(where[1].Exprs) =>
                  SameRender(builder, ClaimedNegation(where[1].Exprs))

\* Not(And(a = 1, Or(a = 1))): unwrapped, one child negated by itself, the
\* other written as it is
C24_Witness ==
    /\ Built("Not.Build")
    /\ where = <<AndExpr(<<Eq("a", GoInt(1)), OrExpr(<<Eq("a", GoInt(1))>>)>>)>>
    /\ String(builder) = "('a' <> $1 AND 'a' = $2)"
    /\ builder.vars = <<GoInt(1), GoInt(1)>>

\* the children after the first, each behind its joiner: " OR " before an
\* OrExpr, " AND " before any other child
RECURSIVE JoinedRest(_, _)
JoinedRest(exprs, b) ==
    IF exprs = <<>> THEN b
    ELSE LET c == Head(exprs)
             joiner == IF c.kind = "OrExpr" THEN " OR " ELSE " AND "
         IN JoinedRest(Tail(exprs), Build(c, WriteString(b, joiner)))

ClaimedTextual(exprs) ==
    LET b == WriteString(NewBuilder, "NOT ")
    IN IF Len(exprs) > 1
       THEN WriteByte(JoinedRest(Tail(exprs),
                                 Build(Head(exprs), WriteByte(b, "("))), ")")
       ELSE Build(Head(exprs), b)

\* C25: a NotExpr none of whose children has a NegationBuild renders, for
\* more than one child, "NOT (" children ")" with " AND " before each child
\* after the first, " OR " instead when that child is an OrExpr, and for
\* one child "NOT " and the child's render with no added parentheses
\* (SpecRender).
C25_TextualPath ==
    (Built("Build") /\ expr.kind = "NotExpr" /\ NoChildNegates(expr)) =>
        SameRender(builder, ClaimedTextual(expr.Exprs))

\* an OrExpr of two children as the second child still takes " OR "
C25_Witness ==
    /\ Built("Build")
    /\ expr = NotExpr(<<AndExpr(<<Eq("a", GoInt(1))>>),
                        OrExpr(<<Eq("a", GoInt(1)), Eq("a", GoInt(1))>>)>>)
    /\ String(builder) = "NOT ('a' = $1 OR ('a' = $2 OR 'a' = $3))"

\* every child of the NotExpr e is of one of the kinds
ChildrenAmong(e, kinds) == \A i \in 1..Len(e.Exprs) : e.Exprs[i].kind \in kinds

RECURSIVE CommaPlaceholders(_)
CommaPlaceholders(n) ==
    IF n = 1 THEN Placeholder(1)
    ELSE CommaPlaceholders(n - 1) \o "," \o Placeholder(n)

\* C27: Eq with a recognized list of n >= 1 elements renders "c IN (" with n
\* placeholders separated by single commas and ")", the elements being the
\* parameters in list order, and Neq renders "c NOT IN (...)" likewise; an
\* empty list renders "c IN (NULL)" / "c NOT IN (NULL)" without
\* parameters; any other non-nil Value renders "c = <param>" /
\* "c <> <param>" with exactly one parameter (SpecRender).
C27_EqList ==
    (Built("Build") /\ expr.kind \in {"Eq", "Neq"}) =>
        LET v == expr.Value
            c == Quoted(expr.Column)
            neq == expr.kind = "Neq"
            in == IF neq THEN " NOT IN (" ELSE " IN ("
        IN /\ (v.t \in ListTypes /\ Len(v.v) >= 1) =>
                  /\ String(builder) = c \o in \o CommaPlaceholders(Len(v.v)) \o ")"
                  /\ builder.vars = v.v
           /\ (v.t \in ListTypes /\ Len(v.v) = 0) =>
                  /\ String(builder) = c \o in \o "NULL)"
                  /\ builder.vars = <<>>
           /\ (v.t \notin ListTypes /\ ~IsNilValued(v)) =>
                  /\ String(builder) = c \o (IF neq THEN " <> $1" ELSE " = $1")
                  /\ builder.vars = <<v>>

\* a Neq over a list of two
C27_Witness ==
    /\ Built("Build")
    /\ expr = Neq("a", Anys(<<GoInt(1), GoString("a")>>))
    /\ String(builder) = "'a' NOT IN ($1,$2)"
    /\ builder.vars = <<GoInt(1), GoString("a")>>

\* C28: after Where, OrWhere and Not calls that recorded no error, every
\* element of the query's Where list is a non-nil expression, and Build
\* renders the list without a panic; calls with a closure that adds no
\* condition, an empty expression list or an empty clause.Where included
\* (Spec).
C28_NoNilElement ==
    Error = "nil" =>
        /\ \A i \in 1..Len(where) : where[i] # NilExpr
        /\ ~(op = "Select.Build" /\ pc = "panicked")

(***************************************************************************)
(* SpecShare: OrderBy called on a Query, two SelectQuerys made from it,    *)
(* then OrderBy and Build called on them in any order.  orderbys is the    *)
(* memory of the ORDER BY lists; origin is history: per builder, the       *)
(* entries it was given, in call order.                                    *)
(***************************************************************************)
MaxShared == 4   \* entries of one ORDER BY list

SelectQueries == {"sq1", "sq2"}

\* (field, orders) given to OrderBy: a column, and a struct
ShareInputs ==
    {Input(Chars(<<"a">>), <<>>), Input(ClauseOrderBy(DescB), <<>>)}

InitShare ==
    /\ pc = "ready"
    /\ op = [m |-> "none", who |-> "q"]
    /\ expr = NilExpr
    /\ where = <<>>
    /\ origin = [o \in Builders |-> <<>>]
    /\ orderbys = NewOrderMem
    /\ pagination = NoPagination
    /\ Error = "nil"
    /\ builder = NewBuilder
    /\ mem = NewMem

\* b.OrderBy(field, orders...)
ShareCall(who) ==
    \E in \in ShareInputs :
        /\ Len(origin[who]) + Len(Added(in.column, in.args)) <= MaxShared
        /\ orderbys' = orderbys_OrderBy_Memory(orderbys, who, in.column, in.args)
        /\ origin' = [origin EXCEPT ![who] = @ \o Added(in.column, in.args)]
        /\ op' = [m |-> "OrderBy", who |-> who]
        /\ UNCHANGED <<pc, expr, where, pagination, Error, builder, mem>>

\* q.OrderBy(field, orders...) before the SelectQuerys are made
ShareOrderBy == pc = "ready" /\ ShareCall("q")

\* sq1 := q.Select(fields...); sq2 := q.Select(fields...)
ShareSelect ==
    /\ pc = "ready"
    /\ orderbys' = Query_Select_Orders(Query_Select_Orders(orderbys, "sq1"), "sq2")
    /\ origin' = [o \in Builders |-> origin["q"]]
    /\ op' = [m |-> "Select", who |-> "q"]
    /\ pc' = "derived"
    /\ UNCHANGED <<expr, where, pagination, Error, builder, mem>>

\* sq.OrderBy(field, orders...) on either SelectQuery
ShareDerivedOrderBy == pc = "derived" /\ \E sq \in SelectQueries : ShareCall(sq)

\* the query built over the ORDER BY list of builder who, into a fresh sink
OrdersRenderOf(m, who) ==
    SelectQuery_Build([table |-> Table, fields |-> Fields,
                       where |-> [Exprs |-> <<>>],
                       orderbys |-> OrderElems(m, who),
                       pagination |-> NoPagination], NewBuilder)

\* sq.Build(builder) with a fresh sink
ShareBuild ==
    /\ pc = "derived"
    /\ \E sq \in SelectQueries :
          /\ builder' = OrdersRenderOf(orderbys, sq)
          /\ op' = [m |-> "Build", who |-> sq]
    /\ UNCHANGED <<pc, expr, where, origin, orderbys, pagination, Error, mem>>

NextShare == ShareOrderBy \/ ShareSelect \/ ShareDerivedOrderBy \/ ShareBuild

SpecShare == InitShare /\ [][NextShare]_vars

\* C29: whatever OrderBy calls were made on the Query before the
\* SelectQuerys were made from it, an OrderBy call on one SelectQuery never
\* changes the entries that the other SelectQuery holds, nor what it
\* renders (SpecShare).
C29_IndependentOrderBys ==
    [][op'.m = "OrderBy" =>
          \A sq \in SelectQueries \ {op'.who} :
              /\ OrderElems(orderbys', sq) = OrderElems(orderbys, sq)
              /\ OrdersRenderOf(orderbys', sq) = OrdersRenderOf(orderbys, sq)]_vars

(***************************************************************************)
(* The ent predicate against the rendered text.                            *)
(***************************************************************************)
\* the predicate holds on row; no predicate filters nothing
RECURSIVE PredHolds(_, _)
PredHolds(p, row) ==
    CASE p.kind = "nil" -> TRUE
      [] p.kind = "sql.And" -> \A i \in 1..Len(p.preds) : PredHolds(p.preds[i], row)
      [] p.kind = "sql.Or" -> \E i \in 1..Len(p.preds) : PredHolds(p.preds[i], row)
      [] p.kind = "sql.Not" -> ~PredHolds(p.preds[1], row)
      [] p.kind = "sql.EQ" -> row[p.Column] = p.Value.v
      [] p.kind = "sql.NEQ" -> row[p.Column] # p.Value.v
      [] p.kind = "sql.GT" -> row[p.Column] > p.Value.v
      [] p.kind = "sql.GTE" -> row[p.Column] >= p.Value.v
      [] p.kind = "sql.LT" -> row[p.Column] < p.Value.v
      [] p.kind = "sql.LTE" -> row[p.Column] <= p.Value.v

\* e is a comparison with an integer, or an AndExpr or OrExpr with children
\* that are
RECURSIVE AndOrOfComparisons(_)
AndOrOfComparisons(e) ==
    IF e.kind \in {"AndExpr", "OrExpr"}
    THEN /\ Len(e.Exprs) > 0
         /\ \A i \in 1..Len(e.Exprs) : AndOrOfComparisons(e.Exprs[i])
    ELSE e.kind \in ComparisonKinds /\ e.Value.t = "int"

\* the condition Select().Build wrote after " WHERE "
RenderedCondition ==
    [buf |-> SubSeq(builder.buf, Len(SelectHead.buf) + 2, Len(builder.buf)),
     vars |-> builder.vars]

\* C30: for a Where list made by Where and OrWhere calls from comparisons
\* and And/Or groups, the predicate the ent adapter builds is true on
\* exactly the rows on which the text the core renders for the same list is
\* true, read with the precedence of SQL; an OrExpr with several children
\* becomes the disjunction of its children (Spec).
C30_EntEquivalent ==
    (/\ pc = "converted" /\ Len(where) > 0
     /\ \A i \in 1..Len(where) :
            origin[i] # "Not" /\ AndOrOfComparisons(where[i])) =>
        /\ expr.err = "nil"
        /\ \A row \in Rows :
               PredHolds(expr.pred, row) = TextHolds(RenderedCondition, row)
====

